---- MODULE Spec2Model ----
(***************************************************************************)
(* Candidate pipeline of the jobs search engine: the SQLite store          *)
(* (core/db.py), the quota manager, the filter chain, the rule scorer,     *)
(* the LLM scorer and the orchestrator (pipeline/*.py).                    *)
(*                                                                         *)
(* Time is counted in whole days: `now` stands for both date.today() and   *)
(* datetime.now().  Scores are exact rationals counted in units of         *)
(* 1/ScoreUnit of a point (the code uses IEEE doubles).  Text is a         *)
(* sequence of one-character strings.                                      *)
(***************************************************************************)
EXTENDS Integers, Sequences, FiniteSets, TLC

\* ------------------------------------------------------------------------
\* Bounds of the model
\* ------------------------------------------------------------------------
MaxBatch == 1            \* longest list the adapter returns
MaxAdapterCalls == 3     \* adapter.search calls that return, over all runs
MaxAdapterCandidates == 2 \* candidates in those lists and in direct upserts
MaxApiCalls == 1         \* upsert_candidate calls made outside a run
MaxQuotaCalls == 3       \* counter updates made outside a run
MaxCount == 1            \* largest count handed to record_candidates
MaxLlmBatch == 2         \* candidates in one score_candidates_llm batch
MaxDedupCalls == 2       \* calls made on one DeduplicationFilter instance
MaxDedupBatch == 2       \* candidates in one list given to that instance
MaxFilterBatch == 2      \* candidates in one list given to a filter or a chain
MaxChain == 2            \* filters in one chain given to run_filter_chain
MaxCrashes == 1          \* times the process dies inside run_search
MaxSearchesPerDay == 2    \* settings.quotas["linkedin"].max_searches_per_day
MaxCandidatesPerDay == 1  \* settings.quotas["linkedin"].max_candidates_per_day

\* ------------------------------------------------------------------------
\* Text helpers (str.lower, str.strip, `in`)
\* ------------------------------------------------------------------------
LowerChar(c) ==
    CASE c = "J" -> "j"
      [] c = "L" -> "l"
      [] c = "P" -> "p"
      [] c = "S" -> "s"
      [] c = "D" -> "d"
      [] c = "R" -> "r"
      [] c = "H" -> "h"
      [] OTHER -> c

Lower(s) == [i \in DOMAIN s |-> LowerChar(s[i])]

IsBlank(s) == \A i \in DOMAIN s : s[i] = " "

RECURSIVE LStrip(_)
LStrip(s) == IF s # <<>> /\ Head(s) = " " THEN LStrip(Tail(s)) ELSE s

RECURSIVE RStrip(_)
RStrip(s) ==
    IF s # <<>> /\ s[Len(s)] = " " THEN RStrip(SubSeq(s, 1, Len(s) - 1)) ELSE s

Strip(s) == RStrip(LStrip(s))

\* kw in text
Contains(kw, text) ==
    \E i \in 0..(Len(text) - Len(kw)) : SubSeq(text, i + 1, i + Len(kw)) = kw

\* f"{a} {b}"
JoinSpace(a, b) == a \o <<" ">> \o b

RECURSIVE SumSeq(_)
SumSeq(s) == IF s = <<>> THEN 0 ELSE Head(s) + SumSeq(Tail(s))

Max2(a, b) == IF a >= b THEN a ELSE b
Min2(a, b) == IF a <= b THEN a ELSE b

\* ------------------------------------------------------------------------
\* The universe: platforms, listings the adapter can return, settings
\* ------------------------------------------------------------------------
Platforms == {"linkedin", "indeed"}

T_LeadPy == <<"L", "e", "a", "d", " ", "P", "y">>
T_JrPhp == <<"J", "r", " ", "P", "h", "p">>
T_PyDev == <<"P", "y", " ", "D", "e", "v">>
D_Rust == <<"R", "u", "s", "t">>

W_remote == <<"r", "e", "m", "o", "t", "e">>
W_Remote == <<"R", "e", "m", "o", "t", "e">>
W_onsite == <<"o", "n", "s", "i", "t", "e">>

K_Jr == <<"J", "r">>
K_py == <<"p", "y">>
K_Rust == <<" ", "R", "u", "s", "t", " ">>
K_dev == <<"d", "e", "v">>
K_Blank == <<" ", " ">>
K_PyPad == <<"P", "y", " ">>
K_PHP == <<"P", "H", "P">>
K_DevRust == <<"D", "e", "v", " ", "R", "u", "s", "t">>

\* posted_time as the text patterns of scorer.py read it: a number and a unit
\* ("" when the text is empty or matches no pattern).
NoPostedTime == [n |-> 0, unit |-> ""]

\* JobCandidate as the adapter builds it, before found_at is stamped.
Listings ==
    { [external_id |-> "1", platform |-> "linkedin", title |-> T_LeadPy,
       description_snippet |-> <<>>, is_easy_apply |-> TRUE,
       workplace_type |-> W_remote, posted_time |-> [n |-> 2, unit |-> "day"]],
      [external_id |-> "2", platform |-> "linkedin", title |-> T_JrPhp,
       description_snippet |-> D_Rust, is_easy_apply |-> FALSE,
       workplace_type |-> W_onsite, posted_time |-> NoPostedTime],
      [external_id |-> "1", platform |-> "indeed", title |-> T_PyDev,
       description_snippet |-> D_Rust, is_easy_apply |-> FALSE,
       workplace_type |-> W_Remote, posted_time |-> [n |-> 3, unit |-> "hour"]] }

\* JobCandidate: the listing with found_at = datetime.now() at construction.
JobCandidate(l, at) ==
    [external_id |-> l.external_id, platform |-> l.platform, title |-> l.title,
     description_snippet |-> l.description_snippet,
     is_easy_apply |-> l.is_easy_apply, workplace_type |-> l.workplace_type,
     posted_time |-> l.posted_time, found_at |-> at]

Key(c) == <<c.platform, c.external_id>>

\* settings.searches
Searches ==
    << [keyword |-> "py", platform |-> "linkedin",
        exclude_keywords |-> <<K_Jr>>, require_keywords |-> <<>>,
        scoring_keywords |-> <<K_py>>],
       [keyword |-> "dev", platform |-> "indeed",
        exclude_keywords |-> <<>>, require_keywords |-> <<K_Rust, K_dev>>,
        scoring_keywords |-> <<>>],
       [keyword |-> "rust", platform |-> "linkedin",
        exclude_keywords |-> <<>>, require_keywords |-> <<>>,
        scoring_keywords |-> <<>>] >>

\* settings.quotas: only linkedin has a quota configured
Quotas ==
    [p \in {"linkedin"} |->
        [max_searches_per_day |-> MaxSearchesPerDay,
         max_candidates_per_day |-> MaxCandidatesPerDay]]

\* ------------------------------------------------------------------------
\* core/db.py: the candidates, quota and search_runs tables
\* ------------------------------------------------------------------------
TTL_DAYS == 30

\* variant of UniqueViolation: the constraint is UNIQUE(external_id) alone
UniqueViolationIdOnly(rows, sc) ==
    \E r \in rows : r.external_id = sc.candidate.external_id

\* UNIQUE(external_id, platform)
UniqueViolation(rows, sc) ==
    \E r \in rows :
        r.external_id = sc.candidate.external_id /\ r.platform = sc.candidate.platform

CandidateRow(id, sc) ==
    [id |-> id, external_id |-> sc.candidate.external_id,
     platform |-> sc.candidate.platform, title |-> sc.candidate.title,
     score |-> sc.score, status |-> "new", found_at |-> sc.candidate.found_at]

\* variant of UpsertReturns: True whether or not a row was inserted
UpsertReturnsAlways(rows, sc) == TRUE

\* upsert_candidate: the return value (True = inserted; IntegrityError -> False)
UpsertReturns(rows, sc) == ~UniqueViolation(rows, sc)

\* variant of UpsertRows: on conflict the new candidate's columns are written
UpsertRowsLastWins(rows, id, sc) ==
    IF UniqueViolation(rows, sc)
    THEN {IF r.external_id = sc.candidate.external_id
             /\ r.platform = sc.candidate.platform
          THEN CandidateRow(r.id, sc) ELSE r : r \in rows}
    ELSE rows \cup {CandidateRow(id, sc)}

\* variant of UpsertRows: on conflict found_at is set to the new candidate's
UpsertRowsRefresh(rows, id, sc) ==
    IF UniqueViolation(rows, sc)
    THEN {IF r.external_id = sc.candidate.external_id
             /\ r.platform = sc.candidate.platform
          THEN [r EXCEPT !.found_at = sc.candidate.found_at] ELSE r : r \in rows}
    ELSE rows \cup {CandidateRow(id, sc)}

\* upsert_candidate: the candidates table after the call
UpsertRows(rows, id, sc) ==
    IF UniqueViolation(rows, sc) THEN rows ELSE rows \cup {CandidateRow(id, sc)}

\* variant of IsCandidateSeen: the cutoff on found_at is left out
IsCandidateSeenAnyAge(rows, external_id, platform, ttl_days, at) ==
    \E r \in rows :
        /\ r.external_id = external_id
        /\ r.platform = platform

\* is_candidate_seen: a row of that pair with found_at >= now - ttl_days
IsCandidateSeen(rows, external_id, platform, ttl_days, at) ==
    \E r \in rows :
        /\ r.external_id = external_id
        /\ r.platform = platform
        /\ r.found_at >= at - ttl_days

QuotaRowFor(q, platform, d) == {r \in q : r.platform = platform /\ r.date = d}

\* variant of UpdateQuota: the row is looked up by platform alone
UpdateQuotaAnyDate(q, platform, searches_delta, candidates_delta, d) ==
    IF {r \in q : r.platform = platform} = {}
    THEN q \cup {[platform |-> platform, date |-> d,
                  searches_run |-> searches_delta,
                  candidates_found |-> candidates_delta]}
    ELSE {IF r.platform = platform
          THEN [r EXCEPT !.searches_run = @ + searches_delta,
                         !.candidates_found = @ + candidates_delta]
          ELSE r : r \in q}

\* variant of GetQuota: the row is looked up by date alone
GetQuotaAnyPlatform(q, platform, d) ==
    IF {r \in q : r.date = d} = {} THEN <<0, 0>>
    ELSE LET r == CHOOSE r \in {x \in q : x.date = d} : TRUE
         IN  <<r.searches_run, r.candidates_found>>

\* get_quota: (searches_run, candidates_found), (0, 0) when there is no row
GetQuota(q, platform, d) ==
    IF QuotaRowFor(q, platform, d) = {} THEN <<0, 0>>
    ELSE LET r == CHOOSE r \in QuotaRowFor(q, platform, d) : TRUE
         IN  <<r.searches_run, r.candidates_found>>

\* variant of UpdateQuota: on conflict the deltas replace the stored counters
UpdateQuotaOverwrite(q, platform, searches_delta, candidates_delta, d) ==
    {r \in q : ~(r.platform = platform /\ r.date = d)}
      \cup {[platform |-> platform, date |-> d,
              searches_run |-> searches_delta,
              candidates_found |-> candidates_delta]}

\* update_quota: INSERT ... ON CONFLICT(platform, date) DO UPDATE
UpdateQuota(q, platform, searches_delta, candidates_delta, d) ==
    IF QuotaRowFor(q, platform, d) = {}
    THEN q \cup {[platform |-> platform, date |-> d,
                  searches_run |-> searches_delta,
                  candidates_found |-> candidates_delta]}
    ELSE {IF r.platform = platform /\ r.date = d
          THEN [r EXCEPT !.searches_run = @ + searches_delta,
                         !.candidates_found = @ + candidates_delta]
          ELSE r : r \in q}

\* insert_search_run: append one row to search_runs
InsertSearchRun(log, platform, keyword, raw_count, filtered_count, started, finished) ==
    Append(log, [platform |-> platform, keyword |-> keyword,
                 raw_count |-> raw_count, filtered_count |-> filtered_count,
                 started_at |-> started, finished_at |-> finished])

\* ------------------------------------------------------------------------
\* pipeline/quota_manager.py
\* ------------------------------------------------------------------------
Unlimited == 999999

\* variant of CanSearch: the comparison is <= instead of <
CanSearchAtCeiling(q, platform, today) ==
    \/ platform \notin DOMAIN Quotas
    \/ GetQuota(q, platform, today)[1] <= Quotas[platform].max_searches_per_day

\* can_search: no quota configured, or searches_run < max_searches_per_day
CanSearch(q, platform, today) ==
    IF platform \notin DOMAIN Quotas THEN TRUE
    ELSE GetQuota(q, platform, today)[1] < Quotas[platform].max_searches_per_day

RemainingCandidates(q, platform, today) ==
    IF platform \notin DOMAIN Quotas THEN Unlimited
    ELSE Max2(0, Quotas[platform].max_candidates_per_day - GetQuota(q, platform, today)[2])

RecordSearch(q, platform, today) == UpdateQuota(q, platform, 1, 0, today)

\* variant of RecordCandidates: the call also counts as a search
RecordCandidatesCountsSearch(q, platform, count, today) ==
    UpdateQuota(q, platform, 1, count, today)

\* record_candidates: update_quota(conn, platform, candidates_delta=count)
RecordCandidates(q, platform, count, today) == UpdateQuota(q, platform, 0, count, today)

\* ------------------------------------------------------------------------
\* pipeline/matcher.py: the filter chain
\* ------------------------------------------------------------------------
\* [kw.lower().strip() for kw in keywords if kw.strip()]
RECURSIVE NormKeywords(_)
NormKeywords(kws) ==
    IF kws = <<>> THEN <<>>
    ELSE (IF Strip(Head(kws)) # <<>> THEN <<Strip(Lower(Head(kws)))>> ELSE <<>>)
         \o NormKeywords(Tail(kws))

\* any(kw in text for kw in keywords)
AnyIn(kws, text) == \E i \in DOMAIN kws : Contains(kws[i], text)

TitleMatches(kws, title) == AnyIn(kws, Lower(title))

\* variant of ExcludeKeywordsFilter: the description is searched as well
ExcludeKeywordsFilterAnyText(exclude_keywords, cands) ==
    LET kws == NormKeywords(exclude_keywords)
        Keep(c) == ~AnyIn(kws, Lower(JoinSpace(c.title, c.description_snippet)))
    IN  IF kws = <<>> THEN cands ELSE SelectSeq(cands, Keep)

ExcludeKeywordsFilter(exclude_keywords, cands) ==
    LET kws == NormKeywords(exclude_keywords)
        Keep(c) == ~TitleMatches(kws, c.title)
    IN  IF kws = <<>> THEN cands ELSE SelectSeq(cands, Keep)

PositiveMatches(kws, c) ==
    AnyIn(kws, Lower(JoinSpace(c.title, c.description_snippet)))

PositiveKeywordsFilter(require_keywords, cands) ==
    LET kws == NormKeywords(require_keywords)
        Keep(c) == PositiveMatches(kws, c)
    IN  IF kws = <<>> THEN cands ELSE SelectSeq(cands, Keep)

\* DeduplicationFilter.__call__: the list it returns
RECURSIVE DedupResult(_, _)
DedupResult(seenKeys, cands) ==
    IF cands = <<>> THEN <<>>
    ELSE IF Key(Head(cands)) \in seenKeys
         THEN DedupResult(seenKeys, Tail(cands))
         ELSE <<Head(cands)>> \o DedupResult(seenKeys \cup {Key(Head(cands))}, Tail(cands))

\* variant of DedupSeen: the keys of a call are not remembered
DedupSeenForgets(seenKeys, cands) == seenKeys

\* DeduplicationFilter.__call__: self._seen after the call
DedupSeen(seenKeys, cands) == seenKeys \cup {Key(cands[i]) : i \in DOMAIN cands}

AlreadySeenFilter(rows, ttl_days, at, cands) ==
    LET Keep(c) == ~IsCandidateSeen(rows, c.external_id, c.platform, ttl_days, at)
    IN  SelectSeq(cands, Keep)

\* _build_filters: exclude, require, dedup, already-seen (L9 order)
BuildFilters(config) ==
    << [kind |-> "exclude", keywords |-> config.exclude_keywords],
       [kind |-> "require", keywords |-> config.require_keywords],
       [kind |-> "dedup", keywords |-> <<>>],
       [kind |-> "seen", keywords |-> <<>>] >>

ApplyFilter(f, cands, seenKeys, rows, at) ==
    CASE f.kind = "exclude" -> ExcludeKeywordsFilter(f.keywords, cands)
      [] f.kind = "require" -> PositiveKeywordsFilter(f.keywords, cands)
      [] f.kind = "dedup" -> DedupResult(seenKeys, cands)
      [] f.kind = "seen" -> AlreadySeenFilter(rows, TTL_DAYS, at, cands)

\* variant of RunFilterChain: the filters are applied last to first
RECURSIVE RunFilterChainLastFirst(_, _, _, _, _)
RunFilterChainLastFirst(cands, filters, seenKeys, rows, at) ==
    IF filters = <<>> THEN cands
    ELSE ApplyFilter(Head(filters),
                     RunFilterChainLastFirst(cands, Tail(filters), seenKeys, rows, at),
                     seenKeys, rows, at)

\* run_filter_chain: the surviving candidates
RECURSIVE RunFilterChain(_, _, _, _, _)
RunFilterChain(cands, filters, seenKeys, rows, at) ==
    IF filters = <<>> THEN cands
    ELSE RunFilterChain(ApplyFilter(Head(filters), cands, seenKeys, rows, at),
                        Tail(filters),
                        IF Head(filters).kind = "dedup"
                        THEN DedupSeen(seenKeys, cands) ELSE seenKeys,
                        rows, at)

\* run_filter_chain: the dedup filter's seen-set after the chain has run
RECURSIVE ChainSeen(_, _, _, _, _)
ChainSeen(cands, filters, seenKeys, rows, at) ==
    IF filters = <<>> THEN seenKeys
    ELSE ChainSeen(ApplyFilter(Head(filters), cands, seenKeys, rows, at),
                   Tail(filters),
                   IF Head(filters).kind = "dedup"
                   THEN DedupSeen(seenKeys, cands) ELSE seenKeys,
                   rows, at)

\* ------------------------------------------------------------------------
\* core/schemas.py and pipeline/scorer.py: the rule scorer
\* ------------------------------------------------------------------------
\* a score s stands for s / ScoreUnit points: thirds (the recency decay) of
\* hundredths (round(x, 2))
ScoreUnit == 3 * 100
MaxScore == 100 * ScoreUnit

\* ScoredCandidate(candidate, score); llm_score is <<>> for None
ScoredCandidate(c, score) ==
    [candidate |-> c, score |-> score, llm_score |-> <<>>, llm_reasoning |-> ""]

\* settings.scoring.llm_enabled of the configuration the runs are made with
LlmEnabled == TRUE

\* settings.scoring (ScoringConfig defaults); recency_weight in tenths
Scoring ==
    [title_match_bonus |-> 20, seniority_match_bonus |-> 15,
     easy_apply_bonus |-> 10, remote_bonus |-> 10, recency_weight10 |-> 3]

SENIORITY_KEYWORDS ==
    << <<"s", "e", "n", "i", "o", "r">>, <<"s", "t", "a", "f", "f">>,
       <<"p", "r", "i", "n", "c", "i", "p", "a", "l">>, <<"l", "e", "a", "d">>,
       <<"d", "i", "r", "e", "c", "t", "o", "r">>, <<"h", "e", "a", "d">>,
       <<"v", "p">> >>

\* _RECENCY_PATTERNS: unit -> days per unit
RecencyMultiplier(unit) ==
    CASE unit = "hour" -> 0
      [] unit = "minute" -> 0
      [] unit = "day" -> 1
      [] unit = "week" -> 7
      [] unit = "month" -> 30

\* _recency_score, in score units
RecencyScore(posted_time, weight10) ==
    IF posted_time.unit = "" THEN 0
    ELSE LET days_ago == posted_time.n * RecencyMultiplier(posted_time.unit)
         IN  IF days_ago <= 0 THEN ScoreUnit * weight10
             ELSE Max2(0, 30 - days_ago) * 10 * weight10

\* number of keywords kw with kw.lower().strip() in title_lower
RECURSIVE TitleHits(_, _)
TitleHits(kws, title_lower) ==
    IF kws = <<>> THEN 0
    ELSE (IF Contains(Strip(Lower(Head(kws))), title_lower) THEN 1 ELSE 0)
         + TitleHits(Tail(kws), title_lower)

\* variant of Clamp: the upper limit is left out
ClampLowerOnly(score) == Max2(0, score)

\* score = max(0.0, min(100.0, score))
Clamp(score) == Max2(0, Min2(MaxScore, score))

score_candidate(c, config, require_keywords, scoring_keywords) ==
    LET title_lower == Lower(c.title)
        kw == TitleHits(require_keywords \o scoring_keywords, title_lower)
                * config.title_match_bonus * ScoreUnit
        sen == IF AnyIn(SENIORITY_KEYWORDS, title_lower)
               THEN config.seniority_match_bonus * ScoreUnit ELSE 0
        easy == IF c.is_easy_apply THEN config.easy_apply_bonus * ScoreUnit ELSE 0
        remote == IF Lower(c.workplace_type) = W_remote
                  THEN config.remote_bonus * ScoreUnit ELSE 0
        rec == RecencyScore(c.posted_time, config.recency_weight10)
    IN  ScoredCandidate(c, Clamp(kw + sen + easy + remote + rec))

\* variant of InsertDesc: an element goes before those of equal score
RECURSIVE InsertDescBeforeEqual(_, _)
InsertDescBeforeEqual(sorted, x) ==
    IF sorted = <<>> THEN <<x>>
    ELSE IF Head(sorted).score > x.score
         THEN <<Head(sorted)>> \o InsertDescBeforeEqual(Tail(sorted), x)
         ELSE <<x>> \o sorted

\* list.sort(key=score, reverse=True): stable, descending
RECURSIVE InsertDesc(_, _)
InsertDesc(sorted, x) ==
    IF sorted = <<>> THEN <<x>>
    ELSE IF Head(sorted).score >= x.score
         THEN <<Head(sorted)>> \o InsertDesc(Tail(sorted), x)
         ELSE <<x>> \o sorted

RECURSIVE SortDesc(_)
SortDesc(s) ==
    IF s = <<>> THEN <<>>
    ELSE InsertDesc(SortDesc(SubSeq(s, 1, Len(s) - 1)), s[Len(s)])

score_candidates(cands, config, require_keywords, scoring_keywords) ==
    SortDesc([i \in DOMAIN cands |->
                score_candidate(cands[i], config, require_keywords, scoring_keywords)])

\* ------------------------------------------------------------------------
\* pipeline/llm_scorer.py and profile/llm: LLM-assisted scoring
\* ------------------------------------------------------------------------
\* A provider response text is a sequence of tokens: a code fence, a JSON
\* value, or text that is no JSON. A JSON object carries its "score" and
\* "reasoning" members as sequences of length 0 (absent) or 1.
Fence == [tok |-> "fence"]
Garbage == [tok |-> "text"]
JsonToken(val) == [tok |-> "json", val |-> val]
JsonObject(score, reasoning) ==
    [kind |-> "object", score |-> score, reasoning |-> reasoning]
JsonArray == [kind |-> "array"]
JNum(v) == [t |-> "num", v |-> v]
JStr == [t |-> "str"]
JNull == [t |-> "null"]

\* a call outcome: a returned value or a raised exception
Returned(v) == [raised |-> FALSE, value |-> v]
Raised(exc) == [raised |-> TRUE, exc |-> exc]

\* the two re.sub calls: a leading and a trailing fence are removed
StripFences(raw_text) ==
    LET a == IF raw_text # <<>> /\ Head(raw_text) = Fence
             THEN Tail(raw_text) ELSE raw_text
    IN  IF a # <<>> /\ a[Len(a)] = Fence THEN SubSeq(a, 1, Len(a) - 1) ELSE a

\* json.loads: the text must be exactly one JSON value
JsonLoads(text) ==
    IF Len(text) = 1 /\ text[1].tok = "json"
    THEN Returned(text[1].val) ELSE Raised("JSONDecodeError")

\* float(data["score"]) in whole points
ToFloat(sv) ==
    CASE sv.t = "num" -> Returned(sv.v)
      [] sv.t = "str" -> Raised("ValueError")
      [] OTHER -> Raised("TypeError")

\* variant of ParseLlmScore: the score is returned as the provider gave it
ParseLlmScoreUnclamped(raw_text) ==
    LET data == JsonLoads(StripFences(raw_text))
    IN  IF data.raised THEN Raised("ValueError")
        ELSE IF data.value.kind # "object" \/ data.value.score = <<>>
        THEN Raised("ValueError")
        ELSE LET raw_score == ToFloat(data.value.score[1])
             IN  IF raw_score.raised THEN raw_score
                 ELSE Returned([score |-> raw_score.value * ScoreUnit,
                                reasoning |->
                                    IF data.value.reasoning = <<>> THEN ""
                                    ELSE data.value.reasoning[1]])

\* _parse_llm_score: (score, reasoning), the score clamped to 0..100
ParseLlmScore(raw_text) ==
    LET data == JsonLoads(StripFences(raw_text))
    IN  IF data.raised THEN Raised("ValueError")
        ELSE IF data.value.kind # "object" \/ data.value.score = <<>>
        THEN Raised("ValueError")
        ELSE LET raw_score == ToFloat(data.value.score[1])
             IN  IF raw_score.raised THEN raw_score
                 ELSE Returned([score |-> Clamp(raw_score.value * ScoreUnit),
                                reasoning |->
                                    IF data.value.reasoning = <<>> THEN ""
                                    ELSE data.value.reasoning[1]])

\* provider.complete: the response is the provider's text or an exception
ProviderComplete(response) ==
    IF response.raises THEN Raised("RuntimeError") ELSE Returned(response.text)

\* round(n / d) to the nearest integer, ties to even
RoundHalfEven(n, d) ==
    LET q == n \div d
        r == n % d
    IN  IF 2 * r < d THEN q
        ELSE IF 2 * r > d THEN q + 1
        ELSE IF q % 2 = 0 THEN q ELSE q + 1

\* variant of Blend: the two weights are exchanged
BlendSwapped(config, score, llm_score) ==
    RoundHalfEven(config.llm_weight10 * score + config.rule_weight10 * llm_score,
                  10 * (ScoreUnit \div 100)) * (ScoreUnit \div 100)

\* round(rule_weight * score + llm_weight * llm_score, 2); the weights are in
\* tenths, the result is a whole number of hundredths of a point
Blend(config, score, llm_score) ==
    RoundHalfEven(config.rule_weight10 * score + config.llm_weight10 * llm_score,
                  10 * (ScoreUnit \div 100)) * (ScoreUnit \div 100)

\* ScoredCandidate(...) validates 0 <= score <= 100
NewScoredCandidate(c, score, llm_score, reasoning) ==
    IF score < 0 \/ score > MaxScore THEN Raised("ValidationError")
    ELSE Returned([candidate |-> c, score |-> score,
                   llm_score |-> <<llm_score>>, llm_reasoning |-> reasoning])

\* variant of score_candidate_llm: _parse_llm_score is outside the try
score_candidate_llm_parse_unguarded(scored, config, response) ==
    IF scored.candidate.description_snippet = <<>> THEN Returned(scored)
    ELSE LET raw == ProviderComplete(response)
         IN  IF raw.raised THEN Returned(scored)
             ELSE LET parsed == ParseLlmScore(raw.value)
                  IN  IF parsed.raised THEN parsed
                      ELSE NewScoredCandidate(
                               scored.candidate,
                               Blend(config, scored.score, parsed.value.score),
                               parsed.value.score, parsed.value.reasoning)

\* score_candidate_llm(scored, profile, config, provider); the provider is
\* given by the response it makes to this call
score_candidate_llm(scored, config, response) ==
    IF scored.candidate.description_snippet = <<>> THEN Returned(scored)
    ELSE LET raw == ProviderComplete(response)
             parsed == IF raw.raised THEN raw ELSE ParseLlmScore(raw.value)
         IN  IF parsed.raised THEN Returned(scored)
             ELSE NewScoredCandidate(
                      scored.candidate,
                      Blend(config, scored.score, parsed.value.score),
                      parsed.value.score, parsed.value.reasoning)

\* profile/llm: the names in _REGISTRY
REGISTRY == {"anthropic", "openai", "gemini", "ollama"}

get_provider(name) ==
    IF name \notin REGISTRY THEN Raised("ValueError") ELSE Returned(name)

\* score_candidates_llm(scored_list, profile, config); responses[i] is what
\* the provider answers for the i-th candidate
score_candidates_llm(scored_list, config, responses) ==
    IF ~config.llm_enabled THEN Returned(scored_list)
    ELSE LET provider == get_provider(config.llm_provider)
             result == [i \in DOMAIN scored_list |->
                          score_candidate_llm(scored_list[i], config, responses[i])]
         IN  IF provider.raised THEN provider
             ELSE IF \E i \in DOMAIN result : result[i].raised
             THEN result[CHOOSE i \in DOMAIN result :
                             /\ result[i].raised
                             /\ \A j \in 1..(i - 1) : ~result[j].raised]
             ELSE Returned(SortDesc([i \in DOMAIN result |-> result[i].value]))

\* variant of ProviderCallsOne: the description is not looked at
ProviderCallsOneAlways(scored) == <<scored.candidate>>

\* the candidates one score_candidate_llm call hands to provider.complete
ProviderCallsOne(scored) ==
    IF scored.candidate.description_snippet = <<>> THEN <<>>
    ELSE <<scored.candidate>>

\* the candidates one score_candidates_llm call hands to provider.complete,
\* in call order; the list comprehension ends at the first exception
RECURSIVE ProviderCallsFrom(_, _, _, _)
ProviderCallsFrom(scored_list, config, responses, i) ==
    IF i > Len(scored_list) THEN <<>>
    ELSE ProviderCallsOne(scored_list[i])
         \o (IF score_candidate_llm(scored_list[i], config, responses[i]).raised
             THEN <<>>
             ELSE ProviderCallsFrom(scored_list, config, responses, i + 1))

ProviderCalls(scored_list, config, responses) ==
    IF ~config.llm_enabled \/ get_provider(config.llm_provider).raised THEN <<>>
    ELSE ProviderCallsFrom(scored_list, config, responses, 1)

\* ------------------------------------------------------------------------
\* State
\* ------------------------------------------------------------------------
VARIABLES
    candidates,     \* candidates table: a set of rows
    nextId,         \* next AUTOINCREMENT id of the candidates table
    quota,          \* quota table: a set of rows keyed by (platform, date)
    search_runs,    \* search_runs table: the append-only log
    now,            \* the clock, in days
    pc,             \* position of the orchestrator
    idx,            \* index into settings.searches of the current search
    seen,           \* DeduplicationFilter._seen of the current run
    results,        \* results list of the current (or last) run
    outcome,        \* "none", "running", "returned" or "raised"
    started_at,     \* run_search local
    raw,            \* run_search local: raw_candidates
    filtered,       \* run_search local
    scored,         \* run_search local
    pos,            \* position of the upsert loop in scored
    new_count,      \* run_search local
    new_keys,       \* history: pairs whose upsert returned True in this search
    keysAtStart,    \* history: pairs stored when the run started
    gated,          \* history: the answers of the quota gate in this run
    adapterReturns, \* adapter.search calls that returned, so far
    adapterCands,   \* candidates those calls returned or a direct upsert
                    \* was given, so far
    budget,         \* cap on adapterReturns in this specification
    crashes,        \* times the process died inside run_search, so far
    apiCalls,       \* direct calls of the store and quota functions so far
    quotaCalls,     \* history: per (platform, date), the deltas handed to
                    \* update_quota outside a run, added up
    call            \* the last direct call: its arguments and return value

storeVars == <<candidates, nextId, quota, search_runs>>
clockVars == <<now>>
runVars == <<pc, idx, seen, results, outcome, keysAtStart, gated, adapterReturns,
            adapterCands>>
searchVars == <<started_at, raw, filtered, scored, pos, new_count, new_keys>>
apiVars == <<budget, crashes, apiCalls, call, quotaCalls>>
vars == <<storeVars, clockVars, runVars, searchVars, apiVars>>

\* the days the clock passes through: a first day, the fifth day after it,
\* and a day more than the TTL later than both
Days == {0, 5, TTL_DAYS + 6}

Batches == UNION {[1..n -> Listings] : n \in 0..MaxBatch}

StoredKeys(rows) == {<<r.platform, r.external_id>> : r \in rows}

NoCall == [op |-> "none"]

\* no run_search call is active: its locals do not exist
NoLocals ==
    /\ started_at = 0
    /\ raw = <<>>
    /\ filtered = <<>>
    /\ scored = <<>>
    /\ pos = 1
    /\ new_count = 0
    /\ new_keys = {}

InitRest ==
    /\ candidates = {}
    /\ nextId = 1
    /\ quota = {}
    /\ search_runs = <<>>
    /\ now = 0
    /\ pc = "idle"
    /\ idx = 1
    /\ seen = {}
    /\ results = <<>>
    /\ outcome = "none"
    /\ NoLocals
    /\ keysAtStart = {}
    /\ gated = <<>>
    /\ adapterReturns = 0
    /\ adapterCands = 0
    /\ apiCalls = 0
    /\ crashes = 0
    /\ quotaCalls = [k \in Platforms \X Days |-> <<0, 0>>]

InitState == InitRest /\ call = NoCall

Init == InitState /\ budget = MaxAdapterCalls

\* ------------------------------------------------------------------------
\* pipeline/orchestrator.py
\* ------------------------------------------------------------------------
\* SearchResult; raw_keys and new_keys are history added for the properties:
\* the pairs the adapter returned, and the pairs whose upsert returned True
SearchResult(config, rawList, filtered_count, count, scoredList, keys) ==
    [keyword |-> config.keyword, platform |-> config.platform,
     raw_count |-> Len(rawList), filtered_count |-> filtered_count,
     new_count |-> count, scored |-> scoredList,
     raw_keys |-> {Key(rawList[i]) : i \in DOMAIN rawList}, new_keys |-> keys]

\* run_search is left (return or exception): its locals end
DropLocals ==
    /\ started_at' = 0
    /\ raw' = <<>>
    /\ filtered' = <<>>
    /\ scored' = <<>>
    /\ pos' = 1
    /\ new_count' = 0
    /\ new_keys' = {}

\* run_all_searches: a fresh QuotaManager, DeduplicationFilter and results list
StartRun ==
    /\ pc = "idle"
    /\ pc' = "gate"
    /\ idx' = 1
    /\ seen' = {}
    /\ results' = <<>>
    /\ outcome' = "running"
    /\ keysAtStart' = StoredKeys(candidates)
    /\ gated' = <<>>
    /\ UNCHANGED <<storeVars, clockVars, searchVars, adapterReturns, adapterCands, apiVars>>

\* variant of QuotaGate: a refused search gives a zero-count SearchResult
QuotaGateZeroEntry ==
    /\ pc = "gate"
    /\ idx <= Len(Searches)
    /\ gated' = Append(gated, CanSearch(quota, Searches[idx].platform, now))
    /\ IF CanSearch(quota, Searches[idx].platform, now)
       THEN /\ started_at' = now
            /\ pc' = "adapter"
            /\ idx' = idx
            /\ results' = results
       ELSE /\ idx' = idx + 1
            /\ pc' = "gate"
            /\ started_at' = started_at
            /\ results' = Append(results,
                                 SearchResult(Searches[idx], <<>>, 0, 0, <<>>, {}))
    /\ UNCHANGED <<apiVars, storeVars, clockVars, seen, outcome, keysAtStart,
                   adapterReturns, adapterCands, raw, filtered, scored, pos,
                   new_count, new_keys>>

\* variant of QuotaGate: a refused search is written to the search-run log
QuotaGateLogsSkip ==
    /\ pc = "gate"
    /\ idx <= Len(Searches)
    /\ gated' = Append(gated, CanSearch(quota, Searches[idx].platform, now))
    /\ IF CanSearch(quota, Searches[idx].platform, now)
       THEN /\ started_at' = now
            /\ pc' = "adapter"
            /\ idx' = idx
            /\ search_runs' = search_runs
       ELSE /\ idx' = idx + 1
            /\ pc' = "gate"
            /\ started_at' = started_at
            /\ search_runs' = InsertSearchRun(search_runs, Searches[idx].platform,
                                              Searches[idx].keyword, 0, 0, now, now)
    /\ UNCHANGED <<apiVars, candidates, nextId, quota, clockVars, seen, results,
                   outcome, keysAtStart, adapterReturns, adapterCands, raw,
                   filtered, scored, pos, new_count, new_keys>>

\* run_search step 1: the quota gate; a blocked search returns None and the
\* loop of run_all_searches goes on to the next search
QuotaGate ==
    /\ pc = "gate"
    /\ idx <= Len(Searches)
    /\ gated' = Append(gated, CanSearch(quota, Searches[idx].platform, now))
    /\ IF CanSearch(quota, Searches[idx].platform, now)
       THEN /\ started_at' = now
            /\ pc' = "adapter"
            /\ idx' = idx
       ELSE /\ idx' = idx + 1
            /\ pc' = "gate"
            /\ started_at' = started_at
    /\ UNCHANGED <<apiVars, storeVars, clockVars, seen, results, outcome,
                   keysAtStart, adapterReturns, adapterCands, raw, filtered,
                   scored, pos, new_count, new_keys>>

\* run_search step 2: adapter.search returns a list
AdapterReturns ==
    /\ pc = "adapter"
    /\ adapterReturns < budget
    /\ \E batch \in Batches :
          /\ adapterCands + Len(batch) <= MaxAdapterCandidates
          /\ raw' = [i \in DOMAIN batch |-> JobCandidate(batch[i], now)]
          /\ adapterCands' = adapterCands + Len(batch)
    /\ adapterReturns' = adapterReturns + 1
    /\ pc' = "filter"
    /\ UNCHANGED <<apiVars, storeVars, clockVars, idx, seen, results, outcome,
                   keysAtStart, gated, started_at, filtered, scored, pos, new_count,
                   new_keys>>

\* variant of AdapterRaises: the exception is caught and the loop goes on
AdapterRaisesCaught ==
    /\ pc = "adapter"
    /\ pc' = "gate"
    /\ idx' = idx + 1
    /\ DropLocals
    /\ UNCHANGED <<apiVars, storeVars, clockVars, seen, results, outcome,
                   keysAtStart, gated, adapterReturns, adapterCands>>

\* variant of AdapterRaises: the attempt is recorded before the call
AdapterRaisesCounted ==
    /\ pc = "adapter"
    /\ pc' = "idle"
    /\ outcome' = "raised"
    /\ quota' = RecordSearch(quota, Searches[idx].platform, now)
    /\ DropLocals
    /\ UNCHANGED <<apiVars, candidates, nextId, search_runs, clockVars, idx, seen,
                   results, keysAtStart, gated, adapterReturns, adapterCands>>

\* run_search step 2: adapter.search raises; nothing catches it, so it leaves
\* run_search and run_all_searches
AdapterRaises ==
    /\ pc = "adapter"
    /\ pc' = "idle"
    /\ outcome' = "raised"
    /\ DropLocals
    /\ UNCHANGED <<apiVars, storeVars, clockVars, idx, seen, results,
                   keysAtStart, gated, adapterReturns, adapterCands>>

\* run_search step 3: the filter chain
FilterStep ==
    /\ pc = "filter"
    /\ filtered' = RunFilterChain(raw, BuildFilters(Searches[idx]), seen, candidates, now)
    /\ seen' = ChainSeen(raw, BuildFilters(Searches[idx]), seen, candidates, now)
    /\ pc' = "score"
    /\ UNCHANGED <<apiVars, storeVars, clockVars, idx, results, outcome,
                   keysAtStart, gated, adapterReturns, adapterCands, started_at, raw, scored, pos,
                   new_count, new_keys>>

\* run_search step 4: the rule scorer; new_count = 0 before the upsert loop
ScoreStep ==
    /\ pc = "score"
    /\ scored' = score_candidates(filtered, Scoring, Searches[idx].require_keywords,
                                  Searches[idx].scoring_keywords)
    /\ pos' = 1
    /\ new_count' = 0
    /\ new_keys' = {}
    /\ pc' = IF filtered = <<>> THEN "record_search" ELSE "upsert"
    /\ UNCHANGED <<apiVars, storeVars, clockVars, idx, seen, results, outcome,
                   keysAtStart, gated, adapterReturns, adapterCands, started_at, raw, filtered>>

\* run_search step 5: one iteration of the upsert loop
UpsertStep ==
    /\ pc = "upsert"
    /\ pos <= Len(scored)
    /\ candidates' = UpsertRows(candidates, nextId, scored[pos])
    /\ IF UpsertReturns(candidates, scored[pos])
       THEN /\ new_count' = new_count + 1
            /\ new_keys' = new_keys \cup {Key(scored[pos].candidate)}
            /\ nextId' = nextId + 1
       ELSE UNCHANGED <<new_count, new_keys, nextId>>
    /\ pos' = pos + 1
    /\ pc' = IF pos + 1 > Len(scored) THEN "record_search" ELSE "upsert"
    /\ UNCHANGED <<apiVars, quota, search_runs, clockVars, idx, seen, results,
                   outcome, keysAtStart, gated, adapterReturns, adapterCands, started_at, raw,
                   filtered, scored>>

\* run_search step 6a: quota_manager.record_search(platform)
RecordSearchStep ==
    /\ pc = "record_search"
    /\ quota' = RecordSearch(quota, Searches[idx].platform, now)
    /\ pc' = "record_candidates"
    /\ UNCHANGED <<apiVars, candidates, nextId, search_runs, clockVars, idx, seen,
                   results, outcome, keysAtStart, gated, adapterReturns, adapterCands, searchVars>>

\* variant of RecordCandidatesStep: the search ends without its log row
RecordCandidatesStepNoLog ==
    /\ pc = "record_candidates"
    /\ quota' = RecordCandidates(quota, Searches[idx].platform, new_count, now)
    /\ pc' = "gate"
    /\ idx' = idx + 1
    /\ DropLocals
    /\ UNCHANGED <<apiVars, candidates, nextId, search_runs, clockVars, seen,
                   results, outcome, keysAtStart, gated, adapterReturns, adapterCands>>

\* variant of RecordCandidatesStep: every scored candidate is counted
RecordCandidatesStepAllScored ==
    /\ pc = "record_candidates"
    /\ quota' = RecordCandidates(quota, Searches[idx].platform, Len(scored), now)
    /\ pc' = "log"
    /\ UNCHANGED <<apiVars, candidates, nextId, search_runs, clockVars, idx, seen,
                   results, outcome, keysAtStart, gated, adapterReturns, adapterCands, searchVars>>

\* run_search step 6b: quota_manager.record_candidates(platform, new_count)
RecordCandidatesStep ==
    /\ pc = "record_candidates"
    /\ quota' = RecordCandidates(quota, Searches[idx].platform, new_count, now)
    /\ pc' = "log"
    /\ UNCHANGED <<apiVars, candidates, nextId, search_runs, clockVars, idx, seen,
                   results, outcome, keysAtStart, gated, adapterReturns, adapterCands, searchVars>>

\* run_search: insert_search_run and the returned SearchResult, which
\* run_all_searches appends to results before it takes the next search; the
\* locals of run_search end with the call
LogStep ==
    /\ pc = "log"
    /\ search_runs' = InsertSearchRun(search_runs, Searches[idx].platform,
                                      Searches[idx].keyword, Len(raw),
                                      Len(filtered), started_at, now)
    /\ results' = Append(results, SearchResult(Searches[idx], raw,
                                               Len(filtered), new_count,
                                               scored, new_keys))
    /\ idx' = idx + 1
    /\ pc' = "gate"
    /\ DropLocals
    /\ UNCHANGED <<apiVars, candidates, nextId, quota, clockVars, seen, outcome,
                   keysAtStart, gated, adapterReturns, adapterCands>>

\* run_all_searches: the loop is over, return results
ReturnResults ==
    /\ pc = "gate"
    /\ idx > Len(Searches)
    /\ pc' = "idle"
    /\ outcome' = "returned"
    /\ UNCHANGED <<apiVars, storeVars, clockVars, idx, seen, results,
                   keysAtStart, gated, adapterReturns, adapterCands, searchVars>>

\* time passes, between runs or while a run awaits the adapter (the other
\* steps are synchronous and taken as instantaneous)
Tick ==
    /\ pc \in {"idle", "adapter"}
    /\ \E d \in Days : d > now /\ now' = d
    /\ UNCHANGED <<apiVars, storeVars, runVars, searchVars>>

Next ==
    \/ StartRun
    \/ QuotaGate
    \/ AdapterReturns
    \/ AdapterRaises
    \/ FilterStep
    \/ ScoreStep
    \/ UpsertStep
    \/ RecordSearchStep
    \/ RecordCandidatesStep
    \/ LogStep
    \/ ReturnResults
    \/ Tick

Spec == Init /\ [][Next]_vars

\* ------------------------------------------------------------------------
\* Direct calls of core/db.py, as the unit tests and other callers make them
\* ------------------------------------------------------------------------
TestScores == {50 * ScoreUnit}

\* upsert_candidate(conn, scored) called outside a run
UpsertCall ==
    /\ pc = "idle"
    /\ apiCalls < MaxApiCalls
    /\ adapterCands < MaxAdapterCandidates
    /\ \E l \in Listings, sc \in TestScores :
          LET scoredC == ScoredCandidate(JobCandidate(l, now), sc)
          IN  /\ candidates' = UpsertRows(candidates, nextId, scoredC)
              /\ nextId' = IF UpsertReturns(candidates, scoredC)
                            THEN nextId + 1 ELSE nextId
              /\ call' = [op |-> "upsert_candidate", arg |-> scoredC,
                          ret |-> UpsertReturns(candidates, scoredC)]
    /\ apiCalls' = apiCalls + 1
    /\ adapterCands' = adapterCands + 1
    /\ UNCHANGED <<quota, search_runs, clockVars, pc, idx, seen, results,
                   outcome, keysAtStart, gated, adapterReturns, searchVars, budget, crashes,
                   quotaCalls>>

\* the quota counters used outside a run: QuotaManager and db.update_quota
QuotaCallLogged(platform, d, searches_delta, candidates_delta) ==
    /\ apiCalls < MaxQuotaCalls
    /\ apiCalls' = apiCalls + 1
    /\ quotaCalls' = [quotaCalls EXCEPT ![<<platform, d>>] =
                          <<@[1] + searches_delta, @[2] + candidates_delta>>]
    /\ UNCHANGED <<candidates, nextId, search_runs, clockVars, runVars,
                   searchVars, budget, crashes>>

RecordSearchCall ==
    /\ pc = "idle"
    /\ \E platform \in Platforms :
          /\ quota' = RecordSearch(quota, platform, now)
          /\ call' = [op |-> "record_search", platform |-> platform, date |-> now]
          /\ QuotaCallLogged(platform, now, 1, 0)

RecordCandidatesCall ==
    /\ pc = "idle"
    /\ \E platform \in Platforms, count \in 0..MaxCount :
          /\ quota' = RecordCandidates(quota, platform, count, now)
          /\ call' = [op |-> "record_candidates", platform |-> platform,
                      date |-> now]
          /\ QuotaCallLogged(platform, now, 0, count)

\* update_quota(conn, platform, searches_delta, candidates_delta, target_date)
UpdateQuotaCall ==
    /\ pc = "idle"
    /\ \E platform \in Platforms, target_date \in Days :
          /\ quota' = UpdateQuota(quota, platform, 1, 1, target_date)
          /\ call' = [op |-> "update_quota", platform |-> platform,
                      date |-> target_date]
          /\ QuotaCallLogged(platform, target_date, 1, 1)

\* can_search(platform) and remaining_candidates(platform), read together
QuotaReadCall ==
    /\ pc = "idle"
    /\ \E platform \in Platforms :
          call' = [op |-> "can_search", platform |-> platform, date |-> now,
                   ret |-> CanSearch(quota, platform, now),
                   remaining |-> RemainingCandidates(quota, platform, now)]
    /\ UNCHANGED <<storeVars, clockVars, runVars, searchVars, budget, crashes, apiCalls,
                   quotaCalls>>

InitQuota == InitState /\ budget = 0

NextQuota ==
    \/ RecordSearchCall
    \/ RecordCandidatesCall
    \/ UpdateQuotaCall
    \/ QuotaReadCall
    \/ Tick

SpecQuota == InitQuota /\ [][NextQuota]_vars

\* LLM scoring called on its own: the inputs are drawn first, then applied
\* ScoringConfig: llm_enabled, llm_provider and the two weights, in tenths
LlmConfigs ==
    {[llm_enabled |-> e, llm_provider |-> p,
      rule_weight10 |-> w[1], llm_weight10 |-> w[2]] :
        e \in BOOLEAN, p \in {"gemini", "mistral"}, w \in {<<4, 6>>, <<3, 7>>}}

ResponseText(t) == [raises |-> FALSE, text |-> t]
R_raise == [raises |-> TRUE, text |-> <<>>]
R_garbage == ResponseText(<<Garbage, Garbage>>)
R_noscore == ResponseText(<<JsonToken(JsonObject(<<>>, <<"x">>))>>)
R_array == ResponseText(<<JsonToken(JsonArray)>>)
R_nonnumeric == ResponseText(<<JsonToken(JsonObject(<<JStr>>, <<>>))>>)
R_ok == ResponseText(<<JsonToken(JsonObject(<<JNum(80)>>, <<"good">>))>>)
R_fenced == ResponseText(<<Fence, JsonToken(JsonObject(<<JNum(150)>>, <<>>)), Fence>>)
R_negative == ResponseText(<<JsonToken(JsonObject(<<JNum(-5)>>, <<"bad">>))>>)

Responses ==
    {R_raise, R_garbage, R_noscore, R_array, R_nonnumeric, R_ok, R_fenced,
     R_negative}

\* rule scores of the candidates given to the LLM scorer: 50 and 50.03
LlmScores == TestScores \cup {5003 * (ScoreUnit \div 100)}

LlmPool == {ScoredCandidate(JobCandidate(l, 0), sc) : l \in Listings, sc \in LlmScores}

LlmInput(b, c, r) ==
    [op |-> "input", scored_list |-> b, config |-> c, responses |-> r]

ScoreCandidatesLlmCall ==
    /\ call.op = "input"
    /\ call' = [op |-> "score_candidates_llm", scored_list |-> call.scored_list,
                config |-> call.config, responses |-> call.responses,
                result |-> score_candidates_llm(call.scored_list, call.config,
                                                call.responses),
                provider_calls |-> ProviderCalls(call.scored_list, call.config,
                                                 call.responses)]
    /\ UNCHANGED <<storeVars, clockVars, runVars, searchVars, budget, crashes, apiCalls,
                   quotaCalls>>

ScoreCandidateLlmCall ==
    /\ call.op = "input"
    /\ call.scored_list # <<>>
    /\ call' = [op |-> "score_candidate_llm", scored |-> call.scored_list[1],
                config |-> call.config, response |-> call.responses[1],
                result |-> score_candidate_llm(call.scored_list[1], call.config,
                                               call.responses[1]),
                provider_calls |-> ProviderCallsOne(call.scored_list[1])]
    /\ UNCHANGED <<storeVars, clockVars, runVars, searchVars, budget, crashes, apiCalls,
                   quotaCalls>>

\* the ends of the range ScoredCandidate.score allows: 0 and 100
EndScores == {0, MaxScore}

\* rule_weight and llm_weight, in tenths, with sum 1.0: all weight on the LLM
\* score, all weight on the rule score, and equal weights
WeightPairs == {<<0, 10>>, <<10, 0>>, <<5, 5>>}

\* score_candidate_llm on the first candidate of the drawn list, given a rule
\* score at an end of its range, under weights from WeightPairs
ScoreCandidateLlmEndsCall ==
    /\ call.op = "input"
    /\ call.scored_list # <<>>
    /\ \E sc \in EndScores, w \in WeightPairs :
          LET one == ScoredCandidate(call.scored_list[1].candidate, sc)
              cfg == [call.config EXCEPT !.rule_weight10 = w[1],
                                         !.llm_weight10 = w[2]]
          IN  call' = [op |-> "score_candidate_llm", scored |-> one,
                       config |-> cfg, response |-> call.responses[1],
                       result |-> score_candidate_llm(one, cfg,
                                                      call.responses[1]),
                       provider_calls |-> ProviderCallsOne(one)]
    /\ UNCHANGED <<storeVars, clockVars, runVars, searchVars, budget, crashes, apiCalls,
                   quotaCalls>>

\* a ScoringConfig under which every rule score is 0
ScoringAllZero ==
    [title_match_bonus |-> 0, seniority_match_bonus |-> 0,
     easy_apply_bonus |-> 0, remote_bonus |-> 0, recency_weight10 |-> 0]

\* score_candidates on the candidates of the drawn list
ScoreCandidatesCall ==
    /\ call.op = "input"
    /\ \E config \in {Scoring, ScoringAllZero} :
          LET cands == [i \in DOMAIN call.scored_list |-> call.scored_list[i].candidate]
          IN  call' = [op |-> "score_candidates", candidates |-> cands,
                       config |-> config,
                       result |-> score_candidates(cands, config, <<K_py>>, <<>>)]
    /\ UNCHANGED <<storeVars, clockVars, runVars, searchVars, budget, crashes, apiCalls,
                   quotaCalls>>

InitLLM ==
    /\ InitRest
    /\ budget = 0
    /\ \E n \in 0..MaxLlmBatch :
          \E b \in [1..n -> LlmPool], c \in LlmConfigs, r \in [1..n -> Responses] :
              call = LlmInput(b, c, r)

NextLLM ==
    \/ ScoreCandidatesLlmCall
    \/ ScoreCandidateLlmCall
    \/ ScoreCandidateLlmEndsCall
    \/ ScoreCandidatesCall

SpecLLM == InitLLM /\ [][NextLLM]_vars

\* direct calls are mixed with as many adapter results as one full run takes
InitStore == InitState /\ budget = Len(Searches)

NextStore ==
    \/ Next
    \/ UpsertCall

SpecStore == InitStore /\ [][NextStore]_vars


\* ------------------------------------------------------------------------
\* score_candidate called directly, over configurations with large and
\* negative bonuses (ScoringConfig puts no limit on the four bonuses)
Bonuses == {0 - 1000, 20, 1000}

ScoringConfigs ==
    [title_match_bonus : Bonuses, seniority_match_bonus : Bonuses,
     easy_apply_bonus : Bonuses, remote_bonus : Bonuses,
     recency_weight10 : {0, 3, 10}]

KeywordLists == {<<>>, <<K_py>>, <<K_Rust, K_dev>>}

ScoreCandidateCall ==
    /\ pc = "idle"
    /\ call = NoCall
    /\ \E l \in Listings, config \in ScoringConfigs,
          require_keywords \in KeywordLists, scoring_keywords \in {<<>>, <<K_py>>} :
          LET c == JobCandidate(l, now)
          IN  call' = [op |-> "score_candidate", arg |-> c, config |-> config,
                       require_keywords |-> require_keywords,
                       scoring_keywords |-> scoring_keywords,
                       ret |-> score_candidate(c, config, require_keywords,
                                               scoring_keywords)]
    /\ UNCHANGED <<storeVars, clockVars, runVars, searchVars, budget, crashes, apiCalls,
                   quotaCalls>>

InitScore == InitState /\ budget = 0

NextScore == ScoreCandidateCall

SpecScore == InitScore /\ [][NextScore]_vars


\* ------------------------------------------------------------------------
\* one DeduplicationFilter instance called directly, several times; call
\* keeps the argument and the returned list of every call made on it
DedupCalls == IF call.op = "DeduplicationFilter" THEN call.calls ELSE <<>>

\* the listings, and the first of them as it would be on the other platform:
\* it differs from the first in platform only, and has the key of the third
DedupPool ==
    Listings \cup {[l EXCEPT !.platform = "indeed"] :
                      l \in {x \in Listings : /\ x.platform = "linkedin"
                                               /\ x.external_id = "1"}}

DeduplicationFilterCall ==
    /\ pc = "idle"
    /\ Len(DedupCalls) < MaxDedupCalls
    /\ \E n \in 0..MaxDedupBatch :
          \E b \in [1..n -> DedupPool] :
              LET candidates_in == [i \in 1..n |-> JobCandidate(b[i], now)]
              IN  /\ seen' = DedupSeen(seen, candidates_in)
                  /\ call' = [op |-> "DeduplicationFilter",
                              calls |-> Append(DedupCalls,
                                  [arg |-> candidates_in,
                                   ret |-> DedupResult(seen, candidates_in)])]
    /\ UNCHANGED <<storeVars, clockVars, searchVars, pc, idx, results, outcome,
                   keysAtStart, gated, adapterReturns, adapterCands, budget, crashes,
                   apiCalls, quotaCalls>>

InitDedup == InitState /\ budget = 0

NextDedup == DeduplicationFilterCall

SpecDedup == InitDedup /\ [][NextDedup]_vars


\* ------------------------------------------------------------------------
\* the filters of matcher.py and run_filter_chain called directly: a filter
\* instance is called, then called again, or a chain is run once
FilterKeywordLists ==
    {<<>>, <<K_Blank>>, <<K_Jr, K_PHP>>, <<K_Rust, K_dev>>, <<K_DevRust>>,
     <<K_Blank, K_Rust>>, <<K_PyPad>>}

FilterPool ==
    {[kind |-> k, keywords |-> kws] :
        k \in {"exclude", "require"}, kws \in FilterKeywordLists}
      \cup {[kind |-> "dedup", keywords |-> <<>>],
            [kind |-> "seen", keywords |-> <<>>]}

\* the instance state a call leaves behind: only the dedup filter has any
FilterSeen(f, seenKeys, cands) ==
    IF f.kind = "dedup" THEN DedupSeen(seenKeys, cands) ELSE seenKeys

FilterBatches ==
    UNION {{[i \in 1..n |-> JobCandidate(b[i], 0)] : b \in [1..n -> Listings]} :
              n \in 0..MaxFilterBatch}

FilterCall ==
    /\ pc = "idle"
    /\ call = NoCall
    /\ \E f \in FilterPool, b \in FilterBatches :
          /\ call' = [op |-> "filter", filter |-> f,
                      calls |-> <<[arg |-> b,
                                   ret |-> ApplyFilter(f, b, seen, candidates, now)]>>]
          /\ seen' = FilterSeen(f, seen, b)
    /\ UNCHANGED <<storeVars, clockVars, searchVars, pc, idx, results, outcome,
                   keysAtStart, gated, adapterReturns, adapterCands, budget, crashes,
                   apiCalls, quotaCalls>>

FilterAgainCall ==
    /\ pc = "idle"
    /\ call.op = "filter"
    /\ Len(call.calls) = 1
    /\ \E b \in FilterBatches :
          /\ call' = [call EXCEPT !.calls = Append(@,
                          [arg |-> b,
                           ret |-> ApplyFilter(call.filter, b, seen, candidates, now)])]
          /\ seen' = FilterSeen(call.filter, seen, b)
    /\ UNCHANGED <<storeVars, clockVars, searchVars, pc, idx, results, outcome,
                   keysAtStart, gated, adapterReturns, adapterCands, budget, crashes,
                   apiCalls, quotaCalls>>

RunFilterChainCall ==
    /\ pc = "idle"
    /\ call = NoCall
    /\ \E n \in 0..MaxChain :
          \E filters \in [1..n -> FilterPool], b \in FilterBatches :
              /\ call' = [op |-> "run_filter_chain", filters |-> filters, arg |-> b,
                          ret |-> RunFilterChain(b, filters, seen, candidates, now)]
              /\ seen' = ChainSeen(b, filters, seen, candidates, now)
    /\ UNCHANGED <<storeVars, clockVars, searchVars, pc, idx, results, outcome,
                   keysAtStart, gated, adapterReturns, adapterCands, budget, crashes,
                   apiCalls, quotaCalls>>

\* the store the already-seen filter reads: empty, or holding the first listing
InitFilter ==
    /\ nextId \in {1, 2}
    /\ candidates = {CandidateRow(1, ScoredCandidate(JobCandidate(l, 0), 0)) :
                        l \in {x \in Listings : /\ nextId = 2
                                                 /\ x.platform = "linkedin"
                                                 /\ x.external_id = "1"}}
    /\ quota = {}
    /\ search_runs = <<>>
    /\ now = 0
    /\ pc = "idle"
    /\ idx = 1
    /\ seen = {}
    /\ results = <<>>
    /\ outcome = "none"
    /\ NoLocals
    /\ keysAtStart = {}
    /\ gated = <<>>
    /\ adapterReturns = 0
    /\ adapterCands = 0
    /\ apiCalls = 0
    /\ crashes = 0
    /\ quotaCalls = [k \in Platforms \X Days |-> <<0, 0>>]
    /\ call = NoCall
    /\ budget = 0

NextFilter ==
    \/ FilterCall
    \/ FilterAgainCall
    \/ RunFilterChainCall

SpecFilter == InitFilter /\ [][NextFilter]_vars


\* ------------------------------------------------------------------------
\* the runs with a process that can die inside run_search once the upsert
\* loop has been reached: every write is committed on its own, so what was
\* written stays, the rest of the search is not done, and a later run starts
\* from that store
Crash ==
    /\ pc \in {"upsert", "record_search", "record_candidates", "log"}
    /\ crashes < MaxCrashes
    /\ crashes' = crashes + 1
    /\ pc' = "idle"
    /\ outcome' = "crashed"
    /\ DropLocals
    /\ UNCHANGED <<storeVars, clockVars, idx, seen, results, keysAtStart, gated,
                   adapterReturns, adapterCands, budget, apiCalls, call, quotaCalls>>

InitCrash == InitState /\ budget = Len(Searches)

NextCrash ==
    \/ Next
    \/ Crash

SpecCrash == InitCrash /\ [][NextCrash]_vars

\* ------------------------------------------------------------------------
\* Claims
\* ------------------------------------------------------------------------
RowsOfPair(rows, external_id, platform) ==
    {r \in rows : r.external_id = external_id /\ r.platform = platform}

\* what one upsert_candidate(sc) call must do to the table and return
UpsertAtMostOnce(rows, rowsAfter, sc, ret) ==
    LET existed == RowsOfPair(rows, sc.candidate.external_id, sc.candidate.platform) # {}
    IN  /\ ret = ~existed
        /\ Cardinality(rowsAfter) = Cardinality(rows) + (IF existed THEN 0 ELSE 1)
        /\ rows \subseteq rowsAfter
        /\ Cardinality(RowsOfPair(rowsAfter, sc.candidate.external_id,
                                  sc.candidate.platform)) = 1

\* C1: at-most-once storage. After every step the candidates table holds at
\* most one row per (external_id, platform); every upsert_candidate call, of
\* the upsert loop of run_search or made directly, returns True exactly when
\* no row of the pair existed before it, and leaves exactly one row of the pair.
C1_AtMostOnce ==
    [][/\ \A r1, r2 \in candidates' :
             (r1.external_id = r2.external_id /\ r1.platform = r2.platform) => r1 = r2
       /\ pc = "upsert" =>
             UpsertAtMostOnce(candidates, candidates', scored[pos], new_count' = new_count + 1)
       /\ apiCalls' # apiCalls /\ call'.op = "upsert_candidate" =>
             UpsertAtMostOnce(candidates, candidates', call'.arg, call'.ret)
      ]_vars

\* C1 witness: a direct upsert of a pair that a run had stored with another
\* score reported not-new, and the pair still has its one row
C1_Witness ==
    /\ call.op = "upsert_candidate"
    /\ ~call.ret
    /\ search_runs # <<>>
    /\ \E r \in candidates :
          /\ RowsOfPair(candidates, call.arg.candidate.external_id,
                        call.arg.candidate.platform) = {r}
          /\ r.score # call.arg.score

NewCounts == [i \in DOMAIN results |-> results[i].new_count]

\* C2: deduplication across searches. While a run is going on and after it
\* has returned, every (platform, external_id) pair, and so every pair the
\* adapter returned in two or more searches, was counted in the new_count of
\* at most one SearchResult; each new_count counts distinct pairs; and the
\* new_count values (with the count of the search in progress) add up to the
\* number of distinct pairs stored since the run began.
C2_DedupAcrossSearches ==
    outcome \in {"running", "returned"} =>
        /\ \A i, j \in DOMAIN results :
              i # j => results[i].new_keys \cap results[j].new_keys = {}
        /\ \A i \in DOMAIN results :
              /\ results[i].new_keys \cap new_keys = {}
              /\ results[i].new_count = Cardinality(results[i].new_keys)
        /\ SumSeq(NewCounts) + new_count
              = Cardinality(StoredKeys(candidates) \ keysAtStart)

\* a returned run in which both searches got the same pair from the adapter
\* and the first one stored it
C2_Witness ==
    /\ outcome = "returned"
    /\ Len(results) = 2
    /\ \E k \in results[1].raw_keys \cap results[2].raw_keys :
          k \in results[1].new_keys
    /\ SumSeq(NewCounts) = 1

\* the logged searches of a platform that passed the quota gate on day d
SearchesExecuted(platform, d) ==
    {i \in DOMAIN search_runs : /\ search_runs[i].platform = platform
                                /\ search_runs[i].started_at = d}

\* C3: search ceiling across restarts. For a platform with a configured quota
\* and for every date, the number of searches executed (logged) for that
\* platform with that date, and the stored searches_run counter of that date,
\* never exceed max_searches_per_day, over any sequence of runs, each of
\* which reads the counters from the store.
C3_SearchCeiling ==
    \A p \in DOMAIN Quotas :
        /\ \A r \in quota :
              r.platform = p => r.searches_run <= Quotas[p].max_searches_per_day
        /\ \A d \in Days :
              Cardinality(SearchesExecuted(p, d)) <= Quotas[p].max_searches_per_day

\* a later run finds the ceiling of its first search reached by earlier runs
\* of the same date, and is refused
C3_Witness ==
    /\ pc = "gate"
    /\ idx = 1
    /\ results = <<>>
    /\ Searches[1].platform \in DOMAIN Quotas
    /\ ~CanSearch(quota, Searches[1].platform, now)
    /\ Cardinality(SearchesExecuted(Searches[1].platform, now)) = MaxSearchesPerDay
    /\ GetQuota(quota, Searches[1].platform, now)[1] = MaxSearchesPerDay

\* C4: candidate ceiling. For a platform with a configured quota, the
\* candidates_found counter of a date never exceeds max_candidates_per_day.
C4_CandidateCeiling ==
    \A r \in quota :
        r.platform \in DOMAIN Quotas =>
            r.candidates_found <= Quotas[r.platform].max_candidates_per_day

\* the quota gate is about to refuse the current search
GateRefuses ==
    /\ pc = "gate"
    /\ idx <= Len(Searches)
    /\ ~CanSearch(quota, Searches[idx].platform, now)

\* C5: a refused search changes nothing. When can_search is false for the
\* current search, the step of run_search leaves the candidates table, the
\* quota counters, the search-run log, the shared dedup seen-set and the list
\* of results unchanged, calls no adapter and runs no filter, and the run is
\* at the gate of the next configured search.
C5_SkipChangesNothing ==
    [][GateRefuses =>
          /\ UNCHANGED <<candidates, nextId, quota, search_runs>>
          /\ UNCHANGED <<seen, results, outcome>>
          /\ UNCHANGED <<adapterReturns, adapterCands, raw, filtered, scored>>
          /\ pc' = "gate"
          /\ idx' = idx + 1
      ]_vars

\* the first search was refused (it left no result and raised nothing) and the
\* run went on to call the adapter for the second search
C5_Witness ==
    /\ pc = "adapter"
    /\ idx = 2
    /\ results = <<>>
    /\ outcome = "running"
    /\ ~CanSearch(quota, Searches[1].platform, started_at)
    /\ seen = {}

\* what can_search has to answer, from the searches recorded for the
\* platform on day d
SearchAllowed(platform, d) ==
    \/ platform \notin DOMAIN Quotas
    \/ quotaCalls[<<platform, d>>][1] < Quotas[platform].max_searches_per_day

\* C6: can_search(platform) is true iff no quota is configured for the
\* platform or the searches recorded for it today are strictly fewer than
\* max_searches_per_day: true at max-1, false at max, whatever was recorded
\* for other platforms.
C6_CanSearch ==
    /\ \A p \in Platforms : CanSearch(quota, p, now) <=> SearchAllowed(p, now)
    /\ call.op = "can_search" => (call.ret <=> SearchAllowed(call.platform, call.date))
    /\ \A p \in DOMAIN Quotas :
          /\ quotaCalls[<<p, now>>][1] = Quotas[p].max_searches_per_day - 1
                => CanSearch(quota, p, now)
          /\ quotaCalls[<<p, now>>][1] = Quotas[p].max_searches_per_day
                => ~CanSearch(quota, p, now)

\* can_search has just answered false for a platform at exactly its maximum,
\* while the same platform stands at max-1 (gate open) on another date
C6_Witness ==
    /\ call.op = "can_search"
    /\ call.platform \in DOMAIN Quotas
    /\ ~call.ret
    /\ quotaCalls[<<call.platform, now>>][1] = MaxSearchesPerDay
    /\ \E d \in Days \ {now} :
          /\ quotaCalls[<<call.platform, d>>][1] = MaxSearchesPerDay - 1
          /\ CanSearch(quota, call.platform, d)

\* remaining_candidates on a (platform, date) nothing was recorded for
FullRemaining(platform) ==
    IF platform \in DOMAIN Quotas
    THEN Quotas[platform].max_candidates_per_day ELSE Unlimited

\* C7: quota counters are keyed by (platform, date). An update_quota for one
\* (platform, date) leaves the row of every other (platform, date) as it
\* was; the counters read for a (platform, date) are exactly what was
\* recorded for it; and on a date nothing was recorded for, can_search is
\* true and remaining_candidates is the full allowance, whatever earlier
\* dates hold.
C7_QuotaKeyedByDate ==
    /\ [](\A p \in Platforms, d \in Days :
            /\ GetQuota(quota, p, d) = quotaCalls[<<p, d>>]
            /\ quotaCalls[<<p, d>>] = <<0, 0>> =>
                  /\ CanSearch(quota, p, d)
                  /\ RemainingCandidates(quota, p, d) = FullRemaining(p))
    /\ [][quota' # quota =>
            \A p \in Platforms, d \in Days :
                <<p, d>> # <<call'.platform, call'.date>> =>
                    /\ QuotaRowFor(quota', p, d) = QuotaRowFor(quota, p, d)
                    /\ GetQuota(quota', p, d) = GetQuota(quota, p, d)
       ]_vars

\* on a later date the gate and the allowance were read fresh although the
\* platform had used up both on the first day
C7_Witness ==
    /\ call.op = "can_search"
    /\ call.platform \in DOMAIN Quotas
    /\ call.date = now
    /\ now > 0
    /\ call.ret
    /\ call.remaining = MaxCandidatesPerDay
    /\ ~CanSearch(quota, call.platform, 0)
    /\ RemainingCandidates(quota, call.platform, 0) = 0

\* the adapter call of the current search ends without a result list
AdapterFails ==
    /\ pc = "adapter"
    /\ pc' # "filter"
    /\ now' = now

\* the log rows written by the searches of the current run that completed
RunLog == SubSeq(search_runs, Len(search_runs) - Len(results) + 1,
                 Len(search_runs))

\* C8: an adapter failure aborts the run without rollback. When the adapter
\* raises for the k-th search, run_all_searches ends with the exception and
\* writes nothing; as long as no new run starts, no later search is started;
\* and the candidate rows, the search-run rows and the quota rows written by
\* the completed searches 1..k-1 are still in the store.
C8_AdapterRaiseAborts ==
    /\ [][AdapterFails =>
            /\ pc' = "idle"
            /\ outcome' = "raised"
            /\ UNCHANGED <<candidates, nextId, quota, search_runs>>
            /\ UNCHANGED <<idx, results>>
       ]_vars
    /\ [][outcome = "raised" /\ outcome' = "raised" =>
            /\ pc' = "idle"
            /\ UNCHANGED <<idx, results, adapterReturns>>
            /\ UNCHANGED <<candidates, nextId, quota, search_runs>>
       ]_vars
    /\ [](outcome = "raised" =>
            /\ pc = "idle"
            /\ Len(results) < idx
            /\ Len(search_runs) >= Len(results)
            /\ \A i \in DOMAIN results :
                  /\ results[i].new_keys \subseteq StoredKeys(candidates)
                  /\ RunLog[i].keyword = results[i].keyword
                  /\ RunLog[i].raw_count = results[i].raw_count
                  /\ \E r \in quota : /\ r.platform = results[i].platform
                                       /\ r.searches_run >= 1)

\* the adapter raised for the second of three searches after the first had
\* stored a candidate: the run is over, the third search never started, and
\* the row, the counters and the log row of the first search are in the store
C8_Witness ==
    /\ outcome = "raised"
    /\ idx = 2
    /\ idx < Len(Searches)
    /\ Len(results) = 1
    /\ results[1].new_count = 1
    /\ results[1].new_keys \subseteq StoredKeys(candidates)
    /\ Len(search_runs) = 1
    /\ GetQuota(quota, Searches[1].platform, now) = <<1, 1>>

\* the responses that are a failure on the provider side: the call raised,
\* the text is no JSON, or the JSON has no usable score
FailedResponses == {R_raise, R_garbage, R_noscore, R_array, R_nonnumeric}

\* the i-th candidate of the batch gets no LLM score
KeepsRuleScore(i) ==
    \/ call.scored_list[i].candidate.description_snippet = <<>>
    \/ call.responses[i] \in FailedResponses

\* C9: with LLM scoring enabled, score_candidates_llm never raises because of
\* the provider side (obtaining the provider, a raising call, an unparseable
\* response): it returns a batch as long as its input, in which every failed
\* candidate is present with its rule score and no llm_score and every other
\* candidate carries an llm_score.
C9_NoLlmFailureEscapes ==
    (call.op = "score_candidates_llm" /\ call.config.llm_enabled) =>
        /\ ~call.result.raised
        /\ Len(call.result.value) = Len(call.scored_list)
        /\ \A i \in DOMAIN call.scored_list :
              IF KeepsRuleScore(i)
              THEN \E j \in DOMAIN call.result.value :
                      call.result.value[j] = call.scored_list[i]
              ELSE \E j \in DOMAIN call.result.value :
                      /\ call.result.value[j].candidate = call.scored_list[i].candidate
                      /\ call.result.value[j].llm_score # <<>>

\* C10: score_candidate_llm returns its input unchanged, with the same score
\* and no llm_score, and does not raise, when the provider call raises, the
\* response is not valid JSON, or the JSON has no score field.
C10_FallbackUnchanged ==
    (call.op = "score_candidate_llm"
        /\ call.response \in {R_raise, R_garbage, R_noscore, R_array}) =>
        /\ ~call.result.raised
        /\ call.result.value = call.scored
        /\ call.result.value.score = call.scored.score
        /\ call.result.value.llm_score = <<>>

\* a candidate with a description was sent to the provider, the JSON that
\* came back had no score field, and the input came back as it was
C10_Witness ==
    /\ call.op = "score_candidate_llm"
    /\ call.scored.candidate.description_snippet # <<>>
    /\ call.response = R_noscore
    /\ ~call.result.raised
    /\ call.result.value = call.scored

\* C11: a candidate with an empty description_snippet is never passed to the
\* provider. Called alone, score_candidate_llm returns the very input and
\* makes no provider call; inside a batch of score_candidates_llm no provider
\* call carries such a candidate, and when the batch call returns, the
\* candidate is in the result as it came in.
C11_EmptyDescriptionSkipsProvider ==
    /\ (call.op = "score_candidate_llm"
          /\ call.scored.candidate.description_snippet = <<>>) =>
            /\ call.result = Returned(call.scored)
            /\ call.provider_calls = <<>>
    /\ call.op = "score_candidates_llm" =>
            /\ \A k \in DOMAIN call.provider_calls :
                  call.provider_calls[k].description_snippet # <<>>
            /\ \A i \in DOMAIN call.scored_list :
                  (call.scored_list[i].candidate.description_snippet = <<>>
                      /\ ~call.result.raised) =>
                        \E j \in DOMAIN call.result.value :
                            call.result.value[j] = call.scored_list[i]

\* an enabled batch of a candidate without description and one with: one
\* provider call was made, and the first came back as it was
C11_Witness ==
    /\ call.op = "score_candidates_llm"
    /\ call.config.llm_enabled
    /\ ~call.result.raised
    /\ Len(call.scored_list) = 2
    /\ call.scored_list[1].candidate.description_snippet = <<>>
    /\ call.scored_list[2].candidate.description_snippet # <<>>
    /\ Len(call.provider_calls) = 1
    /\ \E j \in DOMAIN call.result.value : call.result.value[j] = call.scored_list[1]
    /\ \E j \in DOMAIN call.result.value : call.result.value[j].llm_score # <<>>

\* C12: with LLM scoring enabled in the settings, the ScoredCandidates that
\* run_search hands to the store and returns in its SearchResult carry an
\* llm_score for every candidate that has a description.
C12_LlmStepInRunSearch ==
    LlmEnabled =>
        /\ \A i \in DOMAIN results : \A k \in DOMAIN results[i].scored :
              results[i].scored[k].candidate.description_snippet # <<>> =>
                  results[i].scored[k].llm_score # <<>>
        /\ pc = "upsert" =>
              \A k \in DOMAIN scored :
                  scored[k].candidate.description_snippet # <<>> =>
                      scored[k].llm_score # <<>>

\* the configured searches the quota gate let through, in configured order
RECURSIVE PassedFrom(_, _)
PassedFrom(g, i) ==
    IF i > Len(g) THEN <<>>
    ELSE (IF g[i] THEN <<Searches[i]>> ELSE <<>>) \o PassedFrom(g, i + 1)

\* C13: run_all_searches returns exactly one SearchResult for each configured
\* search that passed the quota gate, in configured order. During a run the
\* results are those of the passed searches that completed; a refused search
\* adds no result and no search-run row; only the completion of a search
\* adds a result, and it adds one result and one row.
C13_OneResultPerPassedSearch ==
    /\ [](outcome # "none" =>
            LET passed == PassedFrom(gated, 1)
            IN  /\ Len(results) <= Len(passed)
                /\ Len(passed) <= Len(results) + 1
                /\ \A k \in DOMAIN results :
                      /\ results[k].keyword = passed[k].keyword
                      /\ results[k].platform = passed[k].platform
                /\ outcome = "returned" =>
                      /\ Len(gated) = Len(Searches)
                      /\ Len(results) = Len(passed))
    /\ [][GateRefuses => UNCHANGED <<results, search_runs>>]_vars
    /\ [][pc = "log" => /\ Len(results') = Len(results) + 1
                        /\ Len(search_runs') = Len(search_runs) + 1]_vars
    /\ [][pc \notin {"log", "idle"} => results' = results]_vars
    /\ [][pc # "log" => search_runs' = search_runs]_vars

\* a returned run of three searches in which the first and the third were
\* refused: its only result is that of the second
C13_Witness ==
    /\ outcome = "returned"
    /\ gated = <<FALSE, TRUE, FALSE>>
    /\ Len(results) = 1
    /\ results[1].keyword = Searches[2].keyword

\* rows of the pair whose age in days at `at` is at most ttl_days
RowsInWindow(rows, external_id, platform, ttl_days, at) ==
    {r \in RowsOfPair(rows, external_id, platform) : at - r.found_at <= ttl_days}

\* C14: is_candidate_seen is true exactly when the store holds a row of that
\* (external_id, platform) found within the trailing ttl_days; a row of the
\* same external_id on another platform never flags; and the already-seen
\* filter of run_search removes exactly the candidates so flagged with
\* TTL = 30, so that a candidate whose row is 31 days old passes and one
\* whose row is 5 days old is removed.
C14_SeenWithinTtl ==
    /\ [](\A l \in Listings, ttl_days \in {4, 5, TTL_DAYS, TTL_DAYS + 1} :
            IsCandidateSeen(candidates, l.external_id, l.platform, ttl_days, now)
              <=> RowsInWindow(candidates, l.external_id, l.platform,
                               ttl_days, now) # {})
    /\ [](\A l \in Listings :
            RowsOfPair(candidates, l.external_id, l.platform) = {}
              => ~IsCandidateSeen(candidates, l.external_id, l.platform,
                                  TTL_DAYS, now))
    /\ [][pc = "filter" =>
            LET others == SubSeq(BuildFilters(Searches[idx]), 1, 3)
                before == RunFilterChain(raw, others, seen, candidates, now)
                Fresh(c) == RowsInWindow(candidates, c.external_id, c.platform,
                                         30, now) = {}
            IN  filtered' = SelectSeq(before, Fresh)]_vars

C14_Witness ==
    /\ pc = "score"
    /\ now = 36
    /\ \E i \in DOMAIN filtered :
          /\ \E r \in RowsOfPair(candidates, filtered[i].external_id,
                                 filtered[i].platform) : now - r.found_at = 31

\* C15: whatever the configured bonuses, large or negative, and however many
\* keywords match, score_candidate returns a score between 0 and 100.
C15_ScoreInRange ==
    call.op = "score_candidate" =>
        /\ call.ret.score >= 0
        /\ call.ret.score <= 100 * ScoreUnit

C15_Witness ==
    /\ call.op = "score_candidate"
    /\ call.ret.score = 100 * ScoreUnit
    /\ call.config.title_match_bonus = 1000
    /\ call.config.seniority_match_bonus = 1000
    /\ TitleHits(call.require_keywords \o call.scoring_keywords,
                 Lower(call.arg.title)) = 2
    /\ call.arg.is_easy_apply
    /\ call.config.easy_apply_bonus < 0

\* the counters of every (platform, date) other than the given one are as before
OtherCountersKept(platform, d) ==
    \A p \in Platforms, e \in Days :
        <<p, e>> # <<platform, d>> => GetQuota(quota', p, e) = GetQuota(quota, p, e)

\* C16: an executed search adds exactly 1 to today's searches_run of its
\* platform and exactly its new_count, the number of upserts that inserted a
\* row, to today's candidates_found: new_count starts at 0 and grows with the
\* candidates table, record_search adds 1 to searches_run and leaves
\* candidates_found alone, record_candidates adds new_count to
\* candidates_found and leaves searches_run alone, and no other step of the
\* pipeline touches the counters.
C16_QuotaIncrements ==
    /\ [][pc = "score" => new_count' = 0]_vars
    /\ [][pc = "upsert" =>
            new_count' - new_count
              = Cardinality(candidates') - Cardinality(candidates)]_vars
    /\ [][pc = "record_search" =>
            /\ GetQuota(quota', Searches[idx].platform, now)
                 = << GetQuota(quota, Searches[idx].platform, now)[1] + 1,
                      GetQuota(quota, Searches[idx].platform, now)[2] >>
            /\ OtherCountersKept(Searches[idx].platform, now)
            /\ new_count' = new_count
            /\ pc' = "record_candidates"]_vars
    /\ [][pc = "record_candidates" =>
            /\ GetQuota(quota', Searches[idx].platform, now)
                 = << GetQuota(quota, Searches[idx].platform, now)[1],
                      GetQuota(quota, Searches[idx].platform, now)[2] + new_count >>
            /\ OtherCountersKept(Searches[idx].platform, now)
            /\ new_count' = new_count
            /\ pc' = "log"]_vars
    /\ [][pc \notin {"record_search", "record_candidates"} => quota' = quota]_vars

\* the second search of the day on its platform has stored one new row and
\* both counters have been written
C16_Witness ==
    /\ pc = "log"
    /\ new_count = 1
    /\ Cardinality(candidates) = 2
    /\ GetQuota(quota, Searches[idx].platform, now) = <<2, 1>>

\* C17: within a (platform, date) the counters searches_run and
\* candidates_found never decrease, and a row once written stays, whatever
\* the pipeline does: the gate's reads, record_search, record_candidates and
\* the other steps of run_search.
C17_CountersMonotonic ==
    [][/\ \A p \in Platforms, d \in Days :
            /\ GetQuota(quota', p, d)[1] >= GetQuota(quota, p, d)[1]
            /\ GetQuota(quota', p, d)[2] >= GetQuota(quota, p, d)[2]
       /\ \A r \in quota : QuotaRowFor(quota', r.platform, r.date) # {}
      ]_vars

\* a search that stored nothing has been recorded on a (platform, date)
\* whose counters an earlier search had raised
C17_Witness ==
    /\ pc = "log"
    /\ new_count = 0
    /\ GetQuota(quota, Searches[idx].platform, now) = <<2, 1>>

\* the position of a step of run_search in the order of the steps
StepRank(p) ==
    CASE p = "gate" -> 1
      [] p = "adapter" -> 2
      [] p = "filter" -> 3
      [] p = "score" -> 4
      [] p = "upsert" -> 5
      [] p = "record_search" -> 6
      [] p = "record_candidates" -> 7
      [] p = "log" -> 8

\* C18: the searches run one after another in configured order and the steps
\* of a search in the order gate, adapter, filter chain, scoring, upserts,
\* quota recording, log append. A run starts at the gate of the first search;
\* within a search every step leads to the next one (the upsert loop repeats,
\* and is passed over when nothing is left to store); the run moves to the
\* next search, by exactly one, only from the log append or from a refusing
\* gate; the log append adds exactly one row, and nothing else adds any.
C18_StepsInOrder ==
    /\ [][pc = "idle" /\ pc' # "idle" => pc' = "gate" /\ idx' = 1]_vars
    /\ [][pc # "idle" /\ pc' # "idle" /\ idx' = idx =>
            \/ StepRank(pc') = StepRank(pc) + 1
            \/ pc = "adapter" /\ pc' = "adapter" /\ now' # now
            \/ pc = "upsert" /\ pc' = "upsert" /\ pos' = pos + 1
            \/ pc = "score" /\ pc' = "record_search" /\ filtered = <<>>]_vars
    /\ [][pc # "idle" /\ idx' # idx =>
            /\ idx' = idx + 1
            /\ pc' = "gate"
            /\ \/ pc = "log"
               \/ GateRefuses]_vars
    /\ [][pc = "log" =>
            /\ idx' = idx + 1
            /\ search_runs' = Append(search_runs, search_runs'[Len(search_runs')])
            /\ search_runs'[Len(search_runs')].keyword = Searches[idx].keyword
            /\ search_runs'[Len(search_runs')].platform = Searches[idx].platform]_vars
    /\ [][pc # "log" => search_runs' = search_runs]_vars
    /\ [][pc # "idle" /\ pc' = "idle" =>
            \/ pc = "gate" /\ idx > Len(Searches)
            \/ pc = "adapter"]_vars

\* the third search is at its upsert loop after the first two have each been
\* logged, in configured order
C18_Witness ==
    /\ pc = "upsert"
    /\ idx = 3
    /\ Len(results) = 2
    /\ Len(search_runs) = 2
    /\ search_runs[1].keyword = Searches[1].keyword
    /\ search_runs[2].keyword = Searches[2].keyword

\* the responses that parse, with the score they carry, in points
ParsedPoints(response) ==
    CASE response = R_ok -> 80
      [] response = R_fenced -> 150
      [] response = R_negative -> 0 - 5

FirstOccurrence(k, i) ==
    /\ \A k2 \in 1..(k - 1) : \A i2 \in DOMAIN DedupCalls[k2].arg :
          Key(DedupCalls[k2].arg[i2]) # Key(DedupCalls[k].arg[i])
    /\ \A i2 \in 1..(i - 1) :
          Key(DedupCalls[k].arg[i2]) # Key(DedupCalls[k].arg[i])

\* the first occurrences among the candidates i.. of the k-th call, in order
RECURSIVE FirstOccurrencesFrom(_, _)
FirstOccurrencesFrom(k, i) ==
    IF i > Len(DedupCalls[k].arg) THEN <<>>
    ELSE (IF FirstOccurrence(k, i) THEN <<DedupCalls[k].arg[i]>> ELSE <<>>)
         \o FirstOccurrencesFrom(k, i + 1)

\* C20: over the lifetime of a DeduplicationFilter instance each
\* (platform, external_id) pair gets through at most once: every call returns,
\* in input order, exactly the candidates whose pair occurs for the first time
\* in call order and then input order, so that no pair is returned twice, in
\* one call or in two, and two candidates with the same external_id on
\* different platforms both get through.
C20_DedupOncePerInstance ==
    /\ \A k \in DOMAIN DedupCalls :
          DedupCalls[k].ret = FirstOccurrencesFrom(k, 1)
    /\ \A k1, k2 \in DOMAIN DedupCalls :
          \A i1 \in DOMAIN DedupCalls[k1].ret, i2 \in DOMAIN DedupCalls[k2].ret :
              Key(DedupCalls[k1].ret[i1]) = Key(DedupCalls[k2].ret[i2])
                => k1 = k2 /\ i1 = i2
    /\ \A k \in DOMAIN DedupCalls : \A i \in DOMAIN DedupCalls[k].arg :
          \E k2 \in 1..k : \E i2 \in DOMAIN DedupCalls[k2].ret :
              /\ DedupCalls[k2].ret[i2].platform = DedupCalls[k].arg[i].platform
              /\ DedupCalls[k2].ret[i2].external_id = DedupCalls[k].arg[i].external_id

\* the first call got the same pair twice and returned it once; the second
\* call got it again, with a candidate of the same external_id on another
\* platform, and returned only the latter
C20_Witness ==
    /\ Len(DedupCalls) = 2
    /\ Len(DedupCalls[1].arg) = 2
    /\ Key(DedupCalls[1].arg[1]) = Key(DedupCalls[1].arg[2])
    /\ Len(DedupCalls[1].ret) = 1
    /\ Len(DedupCalls[2].arg) = 2
    /\ Key(DedupCalls[2].arg[1]) = Key(DedupCalls[1].arg[1])
    /\ DedupCalls[2].arg[2].platform # DedupCalls[2].arg[1].platform
    /\ DedupCalls[2].arg[2]
         = [DedupCalls[2].arg[1] EXCEPT !.platform = DedupCalls[2].arg[2].platform]
    /\ DedupCalls[2].ret = <<DedupCalls[2].arg[2]>>

\* s is t with some elements left out, the others in their order
RECURSIVE IsSubsequence(_, _)
IsSubsequence(s, t) ==
    IF s = <<>> THEN TRUE
    ELSE IF t = <<>> THEN FALSE
    ELSE \/ Head(s) = Head(t) /\ IsSubsequence(Tail(s), Tail(t))
         \/ IsSubsequence(s, Tail(t))

\* every recorded call of a filter returned an order-preserving sub-sequence
\* of its argument, and the empty list for the empty list
FilterCallsSubsequences ==
    call.op = "filter" =>
        \A k \in DOMAIN call.calls :
            /\ IsSubsequence(call.calls[k].ret, call.calls[k].arg)
            /\ call.calls[k].arg = <<>> => call.calls[k].ret = <<>>

\* run_filter_chain gave the first filter's output to the second, and
\* returned the batch itself for the empty chain; a filter occurring twice
\* in the chain is one instance
ChainFeedsInOrder ==
    call.op = "run_filter_chain" =>
        LET f == call.filters
            first == ApplyFilter(f[1], call.arg, {}, candidates, now)
        IN  /\ IsSubsequence(call.ret, call.arg)
            /\ Len(f) = 0 => call.ret = call.arg
            /\ Len(f) = 1 => call.ret = first
            /\ Len(f) = 2 =>
                  call.ret = ApplyFilter(f[2], first,
                                         FilterSeen(f[1], {}, call.arg),
                                         candidates, now)

\* C21 as stated: every filter, the dedup filter included, returns the same
\* result when called again with the same batch.
C21_FiltersPure ==
    /\ FilterCallsSubsequences
    /\ ChainFeedsInOrder
    /\ (call.op = "filter" /\ Len(call.calls) = 2
          /\ call.calls[1].arg = call.calls[2].arg)
         => call.calls[2].ret = call.calls[1].ret

\* C21, amended: every filter returns an order-preserving sub-sequence of its
\* batch and the empty list for the empty batch; the exclude, require and
\* already-seen filters return the same result when called again with the
\* same batch on an unchanged store, whereas the dedup filter, called again
\* with the same batch, returns the empty list; run_filter_chain feeds each
\* filter's output to the next in the given order and returns the batch
\* unchanged for the empty chain.
C21_FiltersPureButDedup ==
    /\ FilterCallsSubsequences
    /\ ChainFeedsInOrder
    /\ (call.op = "filter" /\ Len(call.calls) = 2
          /\ call.calls[1].arg = call.calls[2].arg)
         => IF call.filter.kind = "dedup"
            THEN call.calls[2].ret = <<>>
            ELSE call.calls[2].ret = call.calls[1].ret

\* the dedup filter was called twice with the same two candidates: it
\* returned both, then none
C21_Witness ==
    /\ call.op = "filter"
    /\ call.filter.kind = "dedup"
    /\ Len(call.calls) = 2
    /\ call.calls[1].arg = call.calls[2].arg
    /\ Len(call.calls[1].ret) = 2
    /\ call.calls[2].ret = <<>>

\* the title contains the keyword as written, case-insensitively
TitleHasKeyword(c, kw) == ~IsBlank(kw) /\ Contains(Lower(kw), Lower(c.title))

\* the title contains the keyword without its surrounding blanks,
\* case-insensitively
TitleHasTrimmedKeyword(c, kw) ==
    ~IsBlank(kw) /\ Contains(Lower(Strip(kw)), Lower(c.title))

\* C22 as stated: ExcludeKeywordsFilter removes exactly the candidates whose
\* title contains, case-insensitively, a non-blank exclude keyword as
\* written; the description is not consulted, an empty or all-blank list
\* returns the batch unchanged, and the output is never longer than the input.
C22_ExcludeByTitle ==
    (call.op = "filter" /\ call.filter.kind = "exclude") =>
        \A k \in DOMAIN call.calls :
            LET kws == call.filter.keywords
                Keep(c) == ~\E i \in DOMAIN kws : TitleHasKeyword(c, kws[i])
            IN  /\ call.calls[k].ret = SelectSeq(call.calls[k].arg, Keep)
                /\ (\A i \in DOMAIN kws : IsBlank(kws[i]))
                      => call.calls[k].ret = call.calls[k].arg
                /\ Len(call.calls[k].ret) <= Len(call.calls[k].arg)

\* C22, amended: ExcludeKeywordsFilter removes exactly the candidates whose
\* title contains, case-insensitively, a non-blank exclude keyword taken
\* without its leading and trailing whitespace; the description is not
\* consulted, an empty or all-blank list returns the batch unchanged, and the
\* output is never longer than the input.
C22_ExcludeByTitleTrimmed ==
    (call.op = "filter" /\ call.filter.kind = "exclude") =>
        \A k \in DOMAIN call.calls :
            LET kws == call.filter.keywords
                Keep(c) == ~\E i \in DOMAIN kws : TitleHasTrimmedKeyword(c, kws[i])
            IN  /\ call.calls[k].ret = SelectSeq(call.calls[k].arg, Keep)
                /\ (\A i \in DOMAIN kws : IsBlank(kws[i]))
                      => call.calls[k].ret = call.calls[k].arg
                /\ Len(call.calls[k].ret) <= Len(call.calls[k].arg)

\* exclude ['Jr', 'PHP'] was given 'Jr Php' and 'Lead Py' and returned only
\* the latter
C22_Witness ==
    /\ call.op = "filter"
    /\ call.filter = [kind |-> "exclude", keywords |-> <<K_Jr, K_PHP>>]
    /\ Len(call.calls[1].arg) = 2
    /\ call.calls[1].arg[1].title = T_JrPhp
    /\ call.calls[1].arg[2].title = T_LeadPy
    /\ call.calls[1].ret = <<call.calls[1].arg[2]>>

\* the keyword, taken as the filter takes it (trimmed, lower case), is a
\* substring of the title or a substring of the description snippet
InTitleOrSnippet(c, kw) ==
    \/ Contains(Lower(Strip(kw)), Lower(c.title))
    \/ Contains(Lower(Strip(kw)), Lower(c.description_snippet))

\* C23: with a require list that has a non-blank keyword, a candidate
\* survives PositiveKeywordsFilter exactly when some such keyword is a
\* case-insensitive substring of its title or of its description snippet, a
\* match that spans the boundary between the two fields not counting; with
\* an empty list every candidate survives.
C23_RequireTitleOrSnippet ==
    (call.op = "filter" /\ call.filter.kind = "require") =>
        \A k \in DOMAIN call.calls :
            LET kws == call.filter.keywords
                Survives(c) == \E i \in DOMAIN kws :
                                  ~IsBlank(kws[i]) /\ InTitleOrSnippet(c, kws[i])
            IN  /\ (\E i \in DOMAIN kws : ~IsBlank(kws[i]))
                      => call.calls[k].ret = SelectSeq(call.calls[k].arg, Survives)
                /\ kws = <<>> => call.calls[k].ret = call.calls[k].arg

\* the keywords of the union of the two lists, each once, that occur in the
\* title (lower case, trimmed, as the scorer compares them)
MatchingKeywords(require_keywords, scoring_keywords, title) ==
    {kw \in {Strip(Lower(require_keywords[i])) : i \in DOMAIN require_keywords}
              \cup {Strip(Lower(scoring_keywords[i])) : i \in DOMAIN scoring_keywords} :
        Contains(kw, Lower(title))}

\* C24: the title keyword bonus is added once per matching keyword of the
\* union of require_keywords and scoring_keywords: the score is the clamped
\* sum of n * title_match_bonus, n being the number of distinct matching
\* keywords, and the other bonuses, so that a matching keyword present in
\* both lists adds the bonus once.
C24_TitleBonusPerKeyword ==
    call.op = "score_candidate" =>
        LET c == call.arg
            config == call.config
            n == Cardinality(MatchingKeywords(call.require_keywords,
                                              call.scoring_keywords, c.title))
            rest == (IF AnyIn(SENIORITY_KEYWORDS, Lower(c.title))
                     THEN config.seniority_match_bonus * ScoreUnit ELSE 0)
                    + (IF c.is_easy_apply THEN config.easy_apply_bonus * ScoreUnit ELSE 0)
                    + (IF Lower(c.workplace_type) = W_remote
                       THEN config.remote_bonus * ScoreUnit ELSE 0)
                    + RecencyScore(c.posted_time, config.recency_weight10)
            sum == n * config.title_match_bonus * ScoreUnit + rest
        IN  call.ret.score = Max2(0, Min2(100 * ScoreUnit, sum))

\* the bijections of 1..n
Orderings(n) == {f \in [1..n -> 1..n] : \A i, j \in 1..n : f[i] = f[j] => i = j}

\* out holds each element of each exactly once, by descending score, those
\* of equal score in the order they have in each
StableDescending(out, each) ==
    /\ Len(out) = Len(each)
    /\ \E f \in Orderings(Len(each)) :
          /\ \A j \in DOMAIN out : out[j] = each[f[j]]
          /\ \A j, k \in DOMAIN out :
                j < k => \/ out[j].score > out[k].score
                         \/ out[j].score = out[k].score /\ f[j] < f[k]

\* C25: score_candidates returns every scored input exactly once, by
\* descending score, inputs of equal score in input order; and so does
\* score_candidates_llm, when LLM scoring is enabled and it returns, for the
\* results of score_candidate_llm on its inputs.
C25_SortedStablePermutation ==
    /\ call.op = "score_candidates" =>
          StableDescending(call.result,
              [i \in DOMAIN call.candidates |->
                  score_candidate(call.candidates[i], call.config, <<K_py>>, <<>>)])
    /\ (call.op = "score_candidates_llm" /\ call.config.llm_enabled
          /\ ~call.result.raised) =>
          StableDescending(call.result.value,
              [i \in DOMAIN call.scored_list |->
                  score_candidate_llm(call.scored_list[i], call.config,
                                      call.responses[i]).value])

\* two different candidates came back from the LLM scorer with the same
\* blended score, in their input order
C25_Witness ==
    /\ call.op = "score_candidates_llm"
    /\ call.config.llm_enabled
    /\ ~call.result.raised
    /\ Len(call.result.value) = 2
    /\ call.result.value[1].score = call.result.value[2].score
    /\ call.result.value[1].llm_score # <<>>
    /\ call.result.value[1].candidate # call.result.value[2].candidate
    /\ call.result.value[1].candidate = call.scored_list[1].candidate

\* C26: a search whose adapter call raises leaves the store and the run
\* state as they were when the search started. From the gate that lets the
\* search start to the exception, no step writes a candidate row, a
\* search-run row or a quota counter or changes the dedup seen-set or the
\* results; and when the run has ended with the exception, the failed search
\* may still be searched, its attempt not having been counted.
C26_FailedSearchLeavesNoTrace ==
    /\ [][(pc = "gate" /\ pc' = "adapter") =>
            UNCHANGED <<candidates, nextId, quota, search_runs, seen, results>>]_vars
    /\ [][(pc = "adapter" /\ pc' # "filter") =>
            UNCHANGED <<candidates, nextId, quota, search_runs, seen, results>>]_vars
    /\ [](outcome = "raised" =>
            /\ idx \in DOMAIN Searches
            /\ gated[idx]
            /\ CanSearch(quota, Searches[idx].platform, now))

\* the third search, the second of the day on linkedin, failed at the
\* adapter: the counter still shows the one search that completed and the
\* dedup seen-set still holds what that search put in
C26_Witness ==
    /\ outcome = "raised"
    /\ idx = 3
    /\ seen # {}
    /\ candidates # {}
    /\ GetQuota(quota, Searches[idx].platform, now)[1] = MaxSearchesPerDay - 1

\* the pair has a row and every row of it is older than the TTL at `at`
Expired(rows, external_id, platform, at) ==
    /\ RowsOfPair(rows, external_id, platform) # {}
    /\ \A r \in RowsOfPair(rows, external_id, platform) : at - r.found_at > 30

\* C27: a stored candidate whose found_at is outside the TTL window is not
\* held back by the already-seen filter: when a search returns it, it is in
\* the filtered (and then scored) batch exactly if the exclude, require and
\* dedup filters let it pass. Its upsert inserts nothing and does not count
\* in new_count, no step changes a stored row, and a pair once expired stays
\* expired, so it is let through in every later run as well.
C27_ExpiredRediscovery ==
    /\ [][pc = "filter" =>
            LET before == RunFilterChain(raw, SubSeq(BuildFilters(Searches[idx]), 1, 3),
                                         seen, candidates, now)
            IN  \A i \in DOMAIN raw :
                    Expired(candidates, raw[i].external_id, raw[i].platform, now)
                      => ((\E j \in DOMAIN filtered' : filtered'[j] = raw[i])
                            <=> (\E j \in DOMAIN before : before[j] = raw[i]))]_vars
    /\ [][pc = "score" =>
            \A i \in DOMAIN filtered :
                \E j \in DOMAIN scored' : scored'[j].candidate = filtered[i]]_vars
    /\ [][(pc = "upsert"
            /\ RowsOfPair(candidates, scored[pos].candidate.external_id,
                          scored[pos].candidate.platform) # {}) =>
            /\ new_count' = new_count
            /\ candidates' = candidates]_vars
    /\ [][candidates \subseteq candidates']_vars
    /\ [][\A l \in Listings :
            Expired(candidates, l.external_id, l.platform, now)
              => Expired(candidates', l.external_id, l.platform, now')]_vars

\* a candidate stored 31 or more days ago was returned again, passed the
\* filters, was scored and went through the upsert loop without being
\* counted or refreshed
C27_Witness ==
    /\ pc = "record_search"
    /\ Len(scored) = 1
    /\ new_count = 0
    /\ Expired(candidates, scored[1].candidate.external_id,
               scored[1].candidate.platform, now)
    /\ scored[1].candidate.found_at = now

\* the sum of candidates_found over the rows of a quota table
RECURSIVE SumFound(_)
SumFound(q) ==
    IF q = {} THEN 0
    ELSE LET r == CHOOSE r \in q : TRUE
         IN  r.candidates_found + SumFound(q \ {r})

C29_CollisionChangesNothing ==
    [][/\ (pc = "upsert"
            /\ RowsOfPair(candidates, scored[pos].candidate.external_id,
                          scored[pos].candidate.platform) # {}) =>
              /\ candidates' = candidates
              /\ nextId' = nextId
       /\ (apiCalls' # apiCalls /\ call'.op = "upsert_candidate"
            /\ RowsOfPair(candidates, call'.arg.candidate.external_id,
                          call'.arg.candidate.platform) # {}) =>
              /\ ~call'.ret
              /\ candidates' = candidates
              /\ nextId' = nextId
              /\ \A r \in RowsOfPair(candidates, call'.arg.candidate.external_id,
                                     call'.arg.candidate.platform) :
                    \E r2 \in candidates' :
                        /\ r2.id = r.id
                        /\ r2.score = r.score
                        /\ r2.found_at = r.found_at
                        /\ r2.status = r.status
                        /\ r2.title = r.title
      ]_vars

\* a direct upsert collided with a row stored on an earlier day with another
\* score, and the row still has that day and that score
C29_Witness ==
    /\ call.op = "upsert_candidate"
    /\ ~call.ret
    /\ \E r \in RowsOfPair(candidates, call.arg.candidate.external_id,
                           call.arg.candidate.platform) :
          /\ r.found_at < call.arg.candidate.found_at
          /\ r.score # call.arg.score

====
